---- MODULE Spec2Model ----
(***************************************************************************)
(* studyScope / StudyScribe: the background job executor                   *)
(* (services/jobs.py), the tasks the route layer submits to it             *)
(* (transcribe_audio of services/transcribe.py and _run_notes of app.py),  *)
(* the jobs table they share, the transcript files of a session, and the   *)
(* chunker and the lexical retriever (services/retrieval.py).              *)
(***************************************************************************)
EXTENDS Integers, Sequences, FiniteSets, TLC

(* ---------------------------------------------------------------- bounds *)
MaxJobs == 2          \* requests the route layer serves (one job each)
MaxEnvWorkers == 1    \* largest JOBS_MAX_WORKERS value tried
MaxWindows == 2       \* largest number of audio windows of a job's transcription
MaxChunkPaths == 3    \* largest number of windows _chunk_wav returns (SpecT)
MaxSegs == 2          \* largest number of segments the model yields per window
MaxTimedWindows == 2  \* largest number of windows of a recording in SpecO
MaxTimedSegs == 3     \* largest number of segments of a recording in SpecO
MaxChunkSegs == 3     \* longest segment sequence given to build_chunks (SpecC)
MaxOverlap == 2       \* largest overlap given to build_chunks (SpecC)
MaxCandidates == 3    \* longest candidate list given to retrieve_chunks (SpecR)
MaxK == 2             \* largest k given to retrieve_chunks (SpecR)
MaxEnvRetries == 3    \* largest GEMINI_MAX_RETRIES value tried (SpecG)
MaxAsks == 2          \* Q&A requests the server handles, one thread each (SpecQ)

(* ------------------------------------------------------------ vocabulary *)
None == "None"
NoProgress == 0 - 1

Msg(text) == [text |-> text, i |-> 0, n |-> 0]
NoneMsg == Msg(None)

\* the message numbered with the 0-based loop index
ChunkMsgFromZero(chunk_index, total_chunks) ==
    [text |-> "Transcribing chunk", i |-> chunk_index, n |-> total_chunks]

\* f"Transcribing chunk {chunk_index + 1}/{total_chunks}"
ChunkMsg(chunk_index, total_chunks) ==
    [text |-> "Transcribing chunk", i |-> chunk_index + 1, n |-> total_chunks]

Requests == 1..MaxJobs
Targets == {"transcribe_audio", "_run_notes"}

\* the values JOBS_MAX_WORKERS can hold in the environment
EnvValues ==
    {[set |-> FALSE, valid |-> TRUE, value |-> 0],
     [set |-> TRUE, valid |-> FALSE, value |-> 0]}
    \cup {[set |-> TRUE, valid |-> TRUE, value |-> v] : v \in 0..MaxEnvWorkers}

\* the environment is read once, when services/jobs.py is imported
EnvRead == [set |-> FALSE, valid |-> FALSE, value |-> 0]

\* the value returned as it is, without max(1, value)
resolve_unclamped(raw) ==
    LET r == IF raw.set THEN raw ELSE [set |-> TRUE, valid |-> TRUE, value |-> 2]
    IN IF ~r.valid THEN 2 ELSE r.value

\* raw = os.getenv("JOBS_MAX_WORKERS", "2"); int(raw) or 2; max(1, value)
resolve_max_workers(raw) ==
    LET r == IF raw.set THEN raw ELSE [set |-> TRUE, valid |-> TRUE, value |-> 2]
    IN IF ~r.valid THEN 2
       ELSE IF r.value < 1 THEN 1 ELSE r.value

PoolSize == IF MaxEnvWorkers < 2 THEN 2 ELSE MaxEnvWorkers
WorkerThreads == {<<"worker", i>> : i \in 1..PoolSize}
RequestThreads == {<<"request", r>> : r \in Requests}
Threads == WorkerThreads \cup RequestThreads

(* ------------------------------------------------------------ exceptions *)
NoExc == [cls |-> None, has_user_message |-> FALSE, user_message |-> NoneMsg]

\* TranscriptionError / GeminiError: user_message = user_message or message
TypedError(cls, user_message) ==
    [cls |-> cls, has_user_message |-> TRUE, user_message |-> Msg(user_message)]

\* any other exception class: no user_message attribute
PlainError(cls) == [cls |-> cls, has_user_message |-> FALSE, user_message |-> NoneMsg]

FfmpegMissing == TypedError("TranscriptionError",
    "ffmpeg is required to convert audio. Install ffmpeg or upload a WAV file.")
ConversionFailed == TypedError("TranscriptionError",
    "Could not convert audio to WAV. Please try another file.")
EmptyAudio == TypedError("TranscriptionError", "Audio file was empty.")
EngineMissing == TypedError("TranscriptionError",
    "Transcription engine missing. Install faster_whisper to run transcription.")
InferenceError == PlainError("RuntimeError")
WriteError == PlainError("OSError")

GeminiFailed == TypedError("GeminiError", "AI request failed. Please try again.")
GeminiInvalidJson == TypedError("GeminiError", "AI response was invalid.")

PrepareErrors == {FfmpegMissing, ConversionFailed, EmptyAudio, EngineMissing}
NotesErrors == {GeminiFailed, GeminiInvalidJson, WriteError}

TranscriptPath == "transcript/transcript.json"
NotesPath == "notes/ai_notes.md"

(* ------------------------------------------------------------------ text *)
\* A text is a sequence of pieces: words (runs of [a-zA-Z0-9]) and separator
\* characters. Times are whole seconds.
Words == {"alpha", "beta", "gamma", "Gamma"}
Space == " "
Separators == {Space, "?"}

Reverse(s) == [i \in 1..Len(s) |-> s[Len(s) + 1 - i]]

RECURSIVE len(_)
\* len(text)
len(text) == IF text = <<>> THEN 0 ELSE Len(Head(text)) + len(Tail(text))

RECURSIVE lstrip(_)
lstrip(text) ==
    IF text # <<>> /\ Head(text) = Space THEN lstrip(Tail(text)) ELSE text

\* text.strip()
strip(text) == Reverse(lstrip(Reverse(lstrip(text))))

RECURSIVE join(_)
\* " ".join(texts)
join(texts) ==
    IF texts = <<>> THEN <<>>
    ELSE IF Len(texts) = 1 THEN texts[1]
    ELSE texts[1] \o <<Space>> \o join(Tail(texts))

\* str.lower() of a word
lower(word) ==
    IF word = "Gamma" THEN "gamma"
    ELSE IF word = "JSON" THEN "json"
    ELSE IF word = "Q" THEN "q"
    ELSE word

RECURSIVE findall(_, _, _)
\* re.findall(r"[a-zA-Z0-9]+", ...): run is the word being read
findall(text, run, found) ==
    LET closed == IF run = "" THEN found ELSE Append(found, run)
    IN IF text = <<>> THEN closed
       ELSE IF Head(text) \in Words THEN findall(Tail(text), run \o Head(text), found)
       ELSE findall(Tail(text), "", closed)

\* _tokenize(text): re.findall(r"[a-zA-Z0-9]+", text.lower())
tokenize(text) ==
    findall([i \in 1..Len(text) |-> lower(text[i])], "", <<>>)

(* --------------------------------------------------------------- chunker *)
\* the defaults of build_chunks(segments, max_chars=1200, overlap=1)
DefaultMaxChars == 1200
DefaultOverlap == 1

\* segment.get("text", "")
text_of(segment) == IF "text" \in DOMAIN segment THEN segment.text ELSE <<>>

RECURSIVE buffer_len(_)
\* sum(len(seg.get("text", "")) for seg in buffer)
buffer_len(buffer) ==
    IF buffer = <<>> THEN 0 ELSE len(text_of(Head(buffer))) + buffer_len(Tail(buffer))

\* " ".join(seg["text"].strip() for seg in buffer if seg.get("text"))
chunk_text(buffer) ==
    LET kept == SelectSeq(buffer, LAMBDA seg : text_of(seg) # <<>>)
    IN join([i \in 1..Len(kept) |-> strip(kept[i].text)])

\* the whole buffer kept after a flush
keep_all(buffer, overlap) == buffer

\* buffer[-overlap:] if overlap > 0 else []
keep_overlap(buffer, overlap) ==
    IF overlap > 0
    THEN IF overlap >= Len(buffer) THEN buffer
         ELSE SubSeq(buffer, Len(buffer) - overlap + 1, Len(buffer))
    ELSE <<>>

NoBuffer == [chunks |-> <<>>, buffer |-> <<>>, buffer_chars |-> 0]

\* flush(): the buffer becomes the next chunk, its last overlap segments stay
flush(st, overlap) ==
    IF st.buffer = <<>> THEN st
    ELSE LET buffer == st.buffer
             chunk == [id |-> Len(st.chunks),
                       text |-> chunk_text(buffer),
                       start |-> buffer[1].start,
                       end |-> buffer[Len(buffer)].end,
                       segment_ids |-> [i \in 1..Len(buffer) |-> buffer[i].segment_id]]
             kept == keep_overlap(buffer, overlap)
         IN [chunks |-> Append(st.chunks, chunk),
             buffer |-> kept,
             buffer_chars |-> buffer_len(kept)]

\* if "start" not in segment or "end" not in segment or "segment_id" not in segment
malformed(segment) == ~({"start", "end", "segment_id"} \subseteq DOMAIN segment)

\* the threshold reached only when it is exceeded
over_threshold_strict(buffer_chars, max_chars) == buffer_chars > max_chars

\* if buffer_chars >= max_chars:
over_threshold(buffer_chars, max_chars) == buffer_chars >= max_chars

\* one iteration of the loop over segments, for a well-formed segment
add_segment(st, segment, max_chars, overlap) ==
    LET st1 == [st EXCEPT !.buffer = Append(@, segment),
                          !.buffer_chars = @ + len(text_of(segment))]
    IN IF over_threshold(st1.buffer_chars, max_chars) THEN flush(st1, overlap) ELSE st1

RECURSIVE add_segments(_, _, _, _)
add_segments(st, segments, max_chars, overlap) ==
    IF segments = <<>> THEN st
    ELSE add_segments(add_segment(st, Head(segments), max_chars, overlap),
                      Tail(segments), max_chars, overlap)

\* the segments left in the buffer after the loop dropped
no_final_flush(st, overlap) == st

\* the flush() that follows the loop
final_flush(st, overlap) == flush(st, overlap)

\* build_chunks(segments, max_chars, overlap) for well-formed segments
build_chunks(segments, max_chars, overlap) ==
    final_flush(add_segments(NoBuffer, segments, max_chars, overlap), overlap).chunks

(* ------------------------------------------------------------- retriever *)
\* Counter(tokens)[t]
count(t, tokens) == Cardinality({i \in 1..Len(tokens) : tokens[i] = t})

RECURSIVE sum_over(_, _, _)
sum_over(keys, tf, scores) ==
    IF keys = {} THEN 0
    ELSE LET t == CHOOSE key \in keys : TRUE
         IN count(t, tf) * count(t, scores) + sum_over(keys \ {t}, tf, scores)

\* the number of query tokens the text holds
chunk_score_matches(tokens, text_tokens) ==
    Cardinality({t \in {tokens[i] : i \in 1..Len(tokens)} : count(t, text_tokens) > 0})

\* scores = Counter(tokens); tf = Counter(text_tokens);
\* score = sum(tf[t] * scores[t] for t in scores)
chunk_score(tokens, text_tokens) ==
    sum_over({tokens[i] : i \in 1..Len(tokens)}, text_tokens, tokens)

\* chunk.get("text", "")
candidate_text(chunk) == IF "text" \in DOMAIN chunk THEN chunk.text ELSE <<>>

\* one iteration of the loop over chunks
score_chunk(scored, tokens, chunk) ==
    LET text_tokens == tokenize(candidate_text(chunk))
        score == chunk_score(tokens, text_tokens)
    IN IF text_tokens = <<>> THEN scored
       ELSE IF score > 0 THEN Append(scored, [score |-> score, chunk |-> chunk])
       ELSE scored

RECURSIVE score_chunks(_, _, _)
score_chunks(scored, tokens, chunks) ==
    IF chunks = <<>> THEN scored
    ELSE score_chunks(score_chunk(scored, tokens, Head(chunks)), tokens, Tail(chunks))

RECURSIVE insert_by_score(_, _)
\* the place of item after the items sorted so far: behind every item whose
\* score is not lower (the sort is stable)
insert_by_score(sorted, item) ==
    IF sorted = <<>> THEN <<item>>
    ELSE IF Head(sorted).score >= item.score
         THEN <<Head(sorted)>> \o insert_by_score(Tail(sorted), item)
    ELSE <<item>> \o sorted

RECURSIVE sort_by_score(_)
\* scored.sort(key=lambda item: item[0], reverse=True)
sort_by_score(scored) ==
    IF scored = <<>> THEN <<>>
    ELSE insert_by_score(sort_by_score(SubSeq(scored, 1, Len(scored) - 1)),
                         scored[Len(scored)])

\* the list without the cut to k
whole_list(scored, k) == scored

\* scored[:k]
first_k(scored, k) ==
    IF k >= 0 THEN SubSeq(scored, 1, IF k < Len(scored) THEN k ELSE Len(scored))
    ELSE SubSeq(scored, 1, IF Len(scored) + k > 0 THEN Len(scored) + k ELSE 0)

\* [chunk for _, chunk in scored[:k]]
chunks_of(scored) == [i \in 1..Len(scored) |-> scored[i].chunk]

\* retrieve_chunks(query, chunks, k)
retrieve_chunks(query, chunks, k) ==
    LET tokens == tokenize(query)
    IN IF tokens = <<>> THEN <<>>
       ELSE chunks_of(first_k(sort_by_score(score_chunks(<<>>, tokens, chunks)), k))

(* ------------------------------------------------------------ recordings *)
SeqsUpTo(S, n) == UNION {[1..k -> S] : k \in 0..n}

\* settings.chunk_seconds: TRANSCRIBE_CHUNK_SECONDS, "600" by default
chunk_seconds == 600

\* what the recogniser reports for one segment of a window
PlainResults == {[start |-> 0, end |-> chunk_seconds, text |-> <<Space, "alpha">>]}
\* the last one lies beyond the end of the window
ModelTimes == {0, chunk_seconds, chunk_seconds + 1}
TimedResults ==
    {[start |-> s, end |-> e, text |-> <<Space, "alpha">>] : s, e \in ModelTimes}

\* the recordings followed: the windows _chunk_wav can return, the segments the
\* recogniser can yield for one window and for all of them
PlainAudio == [max_windows |-> MaxChunkPaths, window_segs |-> MaxSegs,
               total_segs |-> MaxChunkPaths * MaxSegs, results |-> PlainResults]
TimedAudio == [max_windows |-> MaxTimedWindows, window_segs |-> MaxTimedSegs,
               total_segs |-> MaxTimedSegs, results |-> TimedResults]

(* ----------------------------------------------------------------- state *)
VARIABLES
    inline,          \* RUN_JOBS_INLINE
    environ,         \* JOBS_MAX_WORKERS in the environment, until it is read
    max_workers,     \* _EXECUTOR's max_workers (0: services/jobs.py not imported yet)
    num_threads,     \* worker threads _EXECUTOR has spawned
    idle_sem,        \* _EXECUTOR's idle semaphore
    work_queue,      \* _EXECUTOR's work queue: the _run closures submitted
    jobs,            \* the jobs table: job id -> row
    req,             \* each request thread's position in its route handler
    ctx,             \* each thread's position and locals inside _run and its task
    hist,            \* per job id: what has happened to it (history)
    tr,              \* a direct call of transcribe_audio (SpecT, SpecO)
    files,           \* the files of the session's transcript directory (SpecT)
    qa,              \* _handle_qa_request loading the session's chunks (SpecT)
    bc,              \* a call of build_chunks (SpecC)
    rc,              \* a call of retrieve_chunks (SpecR)
    gm,              \* a call of answer_question (SpecG)
    ask              \* the Q&A requests, the ai_* tables and the notes files (SpecQ)

vars == <<inline, environ, max_workers, num_threads, idle_sem, work_queue, jobs,
          req, ctx, hist, tr, files, qa, bc, rc, gm, ask>>

NoReport == [progress |-> NoProgress, message |-> NoneMsg]

Idle == [pc |-> "idle", job |-> 0, target |-> None, total_chunks |-> 0,
         chunk_index |-> 0, reported |-> NoReport, exc |-> NoExc,
         result_path |-> None]

\* the transcript directory of the session: a file is absent, open for writing
\* (truncated or partly written: not valid JSON) or completely written
NoFile == [exists |-> FALSE, complete |-> FALSE, data |-> <<>>]
PartFile == [exists |-> TRUE, complete |-> FALSE, data |-> <<>>]
FullFile(data) == [exists |-> TRUE, complete |-> TRUE, data |-> data]
FileNames == <<"transcript.json", "transcript.txt", "chunks.json">>
NoFiles == [name \in {FileNames[i] : i \in 1..Len(FileNames)} |-> NoFile]

NoCall == [pc |-> "none", audio |-> PlainAudio, total_chunks |-> 0, chunk_index |-> 0,
           segments |-> <<>>, segment_id |-> 0, reports |-> <<>>, exc |-> NoExc,
           result_path |-> None, writing |-> 0, before |-> NoFiles]

\* runs: calls of _run for the job; outcome, returned: how its task ended
NoHist == [runs |-> 0, outcome |-> "none", returned |-> None, finished |-> FALSE,
           enqueued |-> FALSE]

\* _handle_qa_request between two requests
QaIdle == [pc |-> "idle", transcript |-> <<>>, chunks |-> <<>>]

\* no call of build_chunks / retrieve_chunks
NoBuild == [pc |-> "none", segments |-> <<>>, rest |-> <<>>, max_chars |-> 0,
            overlap |-> 0, st |-> NoBuffer, flushed |-> FALSE, exc |-> NoExc]
NoRetrieve == [pc |-> "none", query |-> <<>>, chunks |-> <<>>, rest |-> <<>>, k |-> 0,
               tokens |-> <<>>, scored |-> <<>>, result |-> <<>>, exc |-> NoExc]

\* no call of answer_question. Delays are tenths of a second.
NoGen == [pc |-> "none", api_key |-> FALSE, sdk |-> FALSE, retries |-> EnvRead, base |-> EnvRead,
          max_attempts |-> 0, base_delay |-> 0, attempt |-> 0, calls |-> 0,
          slept |-> 0, error |-> NoExc, delay |-> 0, text |-> <<>>, data |-> <<>>,
          exc |-> NoExc, returned |-> FALSE]

\* no Q&A request yet: empty ai_messages and ai_message_sources tables, no
\* notes/last_answer.json in any session directory
NoAsk == [dirs |-> <<>>, reqs |-> <<>>, ai_messages |-> <<>>,
          ai_message_sources |-> <<>>, last_answer |-> <<>>]

Init ==
    /\ inline \in BOOLEAN
    /\ environ \in EnvValues
    /\ max_workers = 0
    /\ num_threads = 0
    /\ idle_sem = 0
    /\ work_queue = <<>>
    /\ jobs = <<>>
    /\ req = [r \in Requests |-> [pc |-> "start", target |-> None]]
    /\ ctx = [t \in Threads |-> Idle]
    /\ hist = [j \in Requests |-> NoHist]
    /\ tr = NoCall
    /\ files = NoFiles
    /\ qa = QaIdle
    /\ bc = NoBuild
    /\ rc = NoRetrieve
    /\ gm = NoGen
    /\ ask = NoAsk

\* import of services/jobs.py: _EXECUTOR = ThreadPoolExecutor(max_workers=...)
ImportJobs ==
    /\ max_workers = 0
    /\ max_workers' = resolve_max_workers(environ)
    /\ environ' = EnvRead
    /\ UNCHANGED <<inline, num_threads, idle_sem, work_queue, jobs, req, ctx, hist, tr, files, qa, bc, rc, gm, ask>>

(* ------------------------------------------------------------- jobs table *)
\* INSERT INTO jobs ... VALUES (job_id, "queued", 0, message, None, now, now)
create_job(job_id, message) ==
    (job_id :> [status |-> "queued", progress |-> 0, message |-> message,
                result_path |-> None]) @@ jobs

\* UPDATE jobs SET <the fields that are not None> WHERE id = job_id
update_job(job_id, status, progress, message, result_path) ==
    [j \in DOMAIN jobs |->
        IF j # job_id THEN jobs[j]
        ELSE [status |-> IF status # None THEN status ELSE jobs[j].status,
              progress |-> IF progress # NoProgress THEN progress ELSE jobs[j].progress,
              message |-> IF message # NoneMsg THEN message ELSE jobs[j].message,
              result_path |-> IF result_path # None THEN result_path
                              ELSE jobs[j].result_path]]

NoJob == [status |-> None, progress |-> NoProgress, message |-> NoneMsg,
          result_path |-> None]

get_job(job_id) == IF job_id \in DOMAIN jobs THEN jobs[job_id] ELSE NoJob

\* the /jobs/<job_id> route
job_status(job_id) ==
    LET job == get_job(job_id)
    IN IF job = NoJob THEN [code |-> 404, status |-> None, progress |-> NoProgress,
                            message |-> NoneMsg, result |-> None]
       ELSE [code |-> 200, status |-> job.status, progress |-> job.progress,
             message |-> job.message, result |-> job.result_path]

(* ------------------------------------------------------------ route layer *)
QueuedMessage(target) ==
    IF target = "transcribe_audio" THEN Msg("Queued for transcription.")
    ELSE Msg("Queued for notes generation.")

\* start_transcription / start_notes up to and including create_job
StartRoute(r, target) ==
    /\ max_workers # 0
    /\ req[r].pc = "start"
    \* job ids are numbered in the order of their creation
    /\ \A q \in Requests : q < r => req[q].pc # "start"
    \* inline mode is the test mode: the test client issues one request at a time
    /\ inline => \A q \in Requests : req[q].pc \in {"start", "returned", "raised"}
    /\ jobs' = create_job(r, QueuedMessage(target))
    /\ req' = [req EXCEPT ![r] = [pc |-> "created", target |-> target]]
    /\ UNCHANGED <<inline, environ, max_workers, num_threads, idle_sem, work_queue,
                   ctx, hist, tr, files, qa, bc, rc, gm, ask>>

\* ThreadPoolExecutor.submit: queue the work item, then start a worker thread
\* unless one is idle or max_workers threads exist already
executor_submit(item) ==
    /\ work_queue' = Append(work_queue, item)
    /\ IF idle_sem > 0
       THEN idle_sem' = idle_sem - 1 /\ UNCHANGED num_threads
       ELSE /\ UNCHANGED idle_sem
            /\ num_threads' = IF num_threads < max_workers THEN num_threads + 1
                              ELSE num_threads

\* every submission handed to the pool
never_inline == FALSE

\* if RUN_JOBS_INLINE:
run_inline == inline

\* enqueue_job: _run() on the caller's thread, or _EXECUTOR.submit(_run)
enqueue_job(r) ==
    /\ req[r].pc = "created"
    /\ hist' = [hist EXCEPT ![r].enqueued = TRUE]
    /\ IF run_inline
       THEN /\ ctx' = [ctx EXCEPT ![<<"request", r>>] =
                          [Idle EXCEPT !.pc = "run", !.job = r, !.target = req[r].target]]
            /\ req' = [req EXCEPT ![r].pc = "inline"]
            /\ UNCHANGED <<work_queue, idle_sem, num_threads>>
       ELSE /\ executor_submit([job |-> r, target |-> req[r].target])
            /\ req' = [req EXCEPT ![r].pc = "returned"]
            /\ UNCHANGED ctx
    /\ UNCHANGED <<inline, environ, max_workers, jobs, tr, files, qa, bc, rc, gm, ask>>

\* the work item read without being taken off the queue
DequeueKeep(t) ==
    /\ t \in WorkerThreads /\ t[2] <= num_threads
    /\ ctx[t].pc = "idle"
    /\ work_queue # <<>>
    /\ ctx' = [ctx EXCEPT ![t] = [Idle EXCEPT !.pc = "run", !.job = Head(work_queue).job,
                                               !.target = Head(work_queue).target]]
    /\ UNCHANGED <<inline, environ, max_workers, num_threads, idle_sem, work_queue, jobs,
                   req, hist, tr, files, qa, bc, rc, gm, ask>>

\* a worker thread of the pool takes the next work item (work_queue.get)
Dequeue(t) ==
    /\ t \in WorkerThreads /\ t[2] <= num_threads
    /\ ctx[t].pc = "idle"
    /\ work_queue # <<>>
    /\ ctx' = [ctx EXCEPT ![t] = [Idle EXCEPT !.pc = "run", !.job = Head(work_queue).job,
                                               !.target = Head(work_queue).target]]
    /\ work_queue' = Tail(work_queue)
    /\ UNCHANGED <<inline, environ, max_workers, num_threads, idle_sem, jobs, req,
                   hist, tr, files, qa, bc, rc, gm, ask>>

(* ------------------------------------------------------------------ _run *)
\* the first update without its status
start_update_no_status(job_id) ==
    update_job(job_id, None, 0, Msg("Starting job..."), None)

\* update_job(job_id, status="in_progress", progress=0, message="Starting job...")
start_update(job_id) ==
    update_job(job_id, "in_progress", 0, Msg("Starting job..."), None)

\* the first statement of _run and the call of target
RunStart(t) ==
    /\ ctx[t].pc = "run"
    /\ jobs' = start_update(ctx[t].job)
    /\ ctx' = [ctx EXCEPT ![t].pc = IF ctx[t].target = "transcribe_audio"
                                     THEN "prepare" ELSE "notes_begin"]
    /\ hist' = [hist EXCEPT ![ctx[t].job].runs = @ + 1]
    /\ UNCHANGED <<inline, environ, max_workers, num_threads, idle_sem, work_queue,
                   req, tr, files, qa, bc, rc, gm, ask>>

\* progress_cb(progress, message): update_job(job_id, progress=progress, message=message)
progress_cb(job_id, progress, message) ==
    update_job(job_id, None, progress, message, None)

Raise(t, exc) ==
    /\ ctx' = [ctx EXCEPT ![t].pc = "raised", ![t].exc = exc]
    /\ hist' = [hist EXCEPT ![ctx[t].job].outcome = "raised"]

\* the thread leaves _run: a worker goes back to the pool, the inline caller
\* returns from enqueue_job (or the exception leaves enqueue_job)
Leave(t, propagate) ==
    /\ ctx' = [ctx EXCEPT ![t] = Idle]
    /\ IF t \in WorkerThreads
       THEN idle_sem' = idle_sem + 1 /\ UNCHANGED req
       ELSE /\ req' = [req EXCEPT ![t[2]].pc = IF propagate THEN "raised" ELSE "returned"]
            /\ UNCHANGED idle_sem

\* the last update without the task's return value
success_update_no_result(job_id, result_path) ==
    update_job(job_id, "success", 100, Msg("Completed."), None)

\* update_job(job_id, status="success", progress=100, message="Completed.",
\*            result_path=result_path)
success_update(job_id, result_path) ==
    update_job(job_id, "success", 100, Msg("Completed."), result_path)

\* target returned: the last statement of the try block
RunSuccess(t) ==
    /\ ctx[t].pc = "returned"
    /\ jobs' = success_update(ctx[t].job, ctx[t].result_path)
    /\ hist' = [hist EXCEPT ![ctx[t].job].finished = TRUE]
    /\ Leave(t, FALSE)
    /\ UNCHANGED <<inline, environ, max_workers, num_threads, work_queue,
                   tr, files, qa, bc, rc, gm, ask>>

\* the generic message whatever the exception carries
failure_message_generic(exc) == Msg("Job failed.")

\* message = getattr(exc, "user_message", "Job failed.")
failure_message(exc) ==
    IF exc.has_user_message THEN exc.user_message ELSE Msg("Job failed.")

\* the handler's update without its status
failure_update_no_status(job_id, exc) ==
    update_job(job_id, None, NoProgress, failure_message(exc), None)

\* update_job(job_id, status="error", message=message)
failure_update(job_id, exc) ==
    update_job(job_id, "error", NoProgress, failure_message(exc), None)

\* except Exception as exc: the handler of _run
RunFail(t) ==
    /\ ctx[t].pc = "raised"
    /\ jobs' = failure_update(ctx[t].job, ctx[t].exc)
    /\ hist' = [hist EXCEPT ![ctx[t].job].finished = TRUE]
    /\ Leave(t, FALSE)
    /\ UNCHANGED <<inline, environ, max_workers, num_threads, work_queue,
                   tr, files, qa, bc, rc, gm, ask>>

(* ------------------------------------------------------ transcribe_audio *)
\* _ensure_wav, _chunk_wav, the empty-audio check and _load_model
Prepare(t) ==
    /\ ctx[t].pc = "prepare"
    /\ \/ \E exc \in PrepareErrors : Raise(t, exc)
       \/ \E n \in 1..MaxWindows :
            /\ ctx' = [ctx EXCEPT ![t].pc = "report", ![t].total_chunks = n,
                                  ![t].chunk_index = 0]
            /\ UNCHANGED hist
    /\ UNCHANGED <<inline, environ, max_workers, num_threads, idle_sem, work_queue,
                   jobs, req, tr, files, qa, bc, rc, gm, ask>>

\* the share of the windows still to do
window_progress_remaining(chunk_index, total_chunks) ==
    ((total_chunks - chunk_index) * 100) \div total_chunks

\* progress = int(((chunk_index) / total_chunks) * 100)
window_progress(chunk_index, total_chunks) == (chunk_index * 100) \div total_chunks

\* top of the loop body: progress_cb(progress, f"Transcribing chunk ...")
ReportWindow(t) ==
    /\ ctx[t].pc = "report"
    /\ LET progress == window_progress(ctx[t].chunk_index, ctx[t].total_chunks)
           message == ChunkMsg(ctx[t].chunk_index, ctx[t].total_chunks)
       IN /\ jobs' = progress_cb(ctx[t].job, progress, message)
          /\ ctx' = [ctx EXCEPT ![t].pc = "transcribe",
                                ![t].reported = [progress |-> progress,
                                                 message |-> message]]
    /\ UNCHANGED <<inline, environ, max_workers, num_threads, idle_sem, work_queue,
                   req, hist, tr, files, qa, bc, rc, gm, ask>>

\* model.transcribe(chunk_path) and the loop over result_segments
\* (the segments are followed in SpecT)
TranscribeWindow(t) ==
    /\ ctx[t].pc = "transcribe"
    /\ \/ Raise(t, InferenceError)
       \/ /\ ctx' = [ctx EXCEPT
                 ![t].chunk_index = @ + 1,
                 ![t].pc = IF ctx[t].chunk_index + 1 < ctx[t].total_chunks
                           THEN "report" ELSE "write"]
          /\ UNCHANGED hist
    /\ UNCHANGED <<inline, environ, max_workers, num_threads, idle_sem, work_queue,
                   jobs, req, tr, files, qa, bc, rc, gm, ask>>

\* _write_transcript_files, build_chunks and the chunks.json dump
\* (the files are followed in SpecT)
WriteOutputs(t) ==
    /\ ctx[t].pc = "write"
    /\ \/ Raise(t, WriteError)
       \/ /\ ctx' = [ctx EXCEPT ![t].pc = "complete"]
          /\ UNCHANGED hist
    /\ UNCHANGED <<inline, environ, max_workers, num_threads, idle_sem, work_queue,
                   jobs, req, tr, files, qa, bc, rc, gm, ask>>

\* the task's locals are gone when it has returned
Return(t, progress, message, path) ==
    [ctx EXCEPT ![t] = [Idle EXCEPT !.pc = "returned", !.job = ctx[t].job,
                                   !.target = ctx[t].target, !.result_path = path,
                                   !.reported = [progress |-> progress,
                                                 message |-> message]]]

\* progress_cb(100, "Transcription complete."); return str(transcript_path)
ReportComplete(t) ==
    /\ ctx[t].pc = "complete"
    /\ jobs' = progress_cb(ctx[t].job, 100, Msg("Transcription complete."))
    /\ hist' = [hist EXCEPT ![ctx[t].job].outcome = "returned",
                            ![ctx[t].job].returned = TranscriptPath]
    /\ ctx' = Return(t, 100, Msg("Transcription complete."), TranscriptPath)
    /\ UNCHANGED <<inline, environ, max_workers, num_threads, idle_sem, work_queue,
                   req, tr, files, qa, bc, rc, gm, ask>>

(* ------------------------------------------------------------ _run_notes *)
\* progress_cb(10, "Generating notes...")
NotesBegin(t) ==
    /\ ctx[t].pc = "notes_begin"
    /\ jobs' = progress_cb(ctx[t].job, 10, Msg("Generating notes..."))
    /\ ctx' = [ctx EXCEPT ![t].pc = "notes_generate",
                          ![t].reported = [progress |-> 10,
                                           message |-> Msg("Generating notes...")]]
    /\ UNCHANGED <<inline, environ, max_workers, num_threads, idle_sem, work_queue,
                   req, hist, tr, files, qa, bc, rc, gm, ask>>

\* generate_notes(prompt) and the writes of ai_notes.md and ai_notes.json
NotesGenerate(t) ==
    /\ ctx[t].pc = "notes_generate"
    /\ \/ \E exc \in NotesErrors : Raise(t, exc)
       \/ ctx' = [ctx EXCEPT ![t].pc = "notes_complete"] /\ UNCHANGED hist
    /\ UNCHANGED <<inline, environ, max_workers, num_threads, idle_sem, work_queue,
                   jobs, req, tr, files, qa, bc, rc, gm, ask>>

\* progress_cb(100, "Notes generated."); return str(notes_path)
NotesComplete(t) ==
    /\ ctx[t].pc = "notes_complete"
    /\ jobs' = progress_cb(ctx[t].job, 100, Msg("Notes generated."))
    /\ hist' = [hist EXCEPT ![ctx[t].job].outcome = "returned",
                            ![ctx[t].job].returned = NotesPath]
    /\ ctx' = Return(t, 100, Msg("Notes generated."), NotesPath)
    /\ UNCHANGED <<inline, environ, max_workers, num_threads, idle_sem, work_queue,
                   req, tr, files, qa, bc, rc, gm, ask>>

(* --------------------------------------------------------- specification *)
ThreadStep(t) ==
    \/ Dequeue(t)
    \/ RunStart(t)
    \/ Prepare(t)
    \/ ReportWindow(t)
    \/ TranscribeWindow(t)
    \/ WriteOutputs(t)
    \/ ReportComplete(t)
    \/ NotesBegin(t)
    \/ NotesGenerate(t)
    \/ NotesComplete(t)
    \/ RunSuccess(t)
    \/ RunFail(t)

Next ==
    \/ ImportJobs
    \/ \E r \in Requests, target \in Targets : StartRoute(r, target)
    \/ \E r \in Requests : enqueue_job(r)
    \/ \E t \in Threads : ThreadStep(t)

Spec == Init /\ [][Next]_vars

\* the pool's workers and the inline caller are scheduled fairly
FairSpec == Spec /\ WF_vars(\E t \in Threads : ThreadStep(t))

(* ------------------------------------- transcribe_audio, called directly *)
\* SpecT follows one call of transcribe_audio with a recording progress_cb in a
\* session that has no transcript yet or the transcript of an earlier run: the
\* segments it assembles, the files it writes, and _handle_qa_request reading
\* these files at any moment. SpecO follows the call up to its last window, for
\* recordings whose recognised times vary.
executor_vars == <<inline, environ, max_workers, num_threads, idle_sem, work_queue,
                   jobs, req, ctx, hist>>
retrieval_vars == <<bc, rc, gm, ask>>

\* every window's times counted from the start of its own window
window_offset_none(chunk_index) == 0

\* offset = chunk_index * settings.chunk_seconds
window_offset(chunk_index) == chunk_index * chunk_seconds

\* the numbering starting again with every window
window_segments_restart(chunk_index, segment_id, result_segments) ==
    [s \in 1..Len(result_segments) |->
        [segment_id |-> s - 1,
         start |-> result_segments[s].start + window_offset(chunk_index),
         end |-> result_segments[s].end + window_offset(chunk_index),
         text |-> strip(result_segments[s].text),
         tags |-> <<>>,
         window |-> chunk_index,
         seg |-> result_segments[s]]]

\* the loop over result_segments: segments.append({...}); segment_id += 1
\* (window and seg record where a segment came from)
window_segments(chunk_index, segment_id, result_segments) ==
    [s \in 1..Len(result_segments) |->
        [segment_id |-> segment_id + (s - 1),
         start |-> result_segments[s].start + window_offset(chunk_index),
         end |-> result_segments[s].end + window_offset(chunk_index),
         text |-> strip(result_segments[s].text),
         tags |-> <<>>,
         window |-> chunk_index,
         seg |-> result_segments[s]]]

\* f"[{seg['start']:.2f}-{seg['end']:.2f}] {seg['text']}\n" for every segment
transcript_txt(segments) ==
    [i \in 1..Len(segments) |->
        [start |-> segments[i].start, end |-> segments[i].end,
         text |-> segments[i].text]]

\* what transcribe_audio writes into each file of the transcript directory
file_content(name, segments) ==
    IF name = "transcript.json" THEN segments
    ELSE IF name = "transcript.txt" THEN transcript_txt(segments)
    ELSE build_chunks(segments, DefaultMaxChars, DefaultOverlap)

\* the files a completed run leaves
written_files(segments) ==
    [name \in DOMAIN NoFiles |-> FullFile(file_content(name, segments))]

\* load_transcript: [] for a missing file and for one that is no JSON list
load_transcript(file) ==
    IF ~file.exists THEN <<>> ELSE IF ~file.complete THEN <<>> ELSE file.data

\* the transcript of an earlier run: one window with one segment
PriorTranscript ==
    window_segments(0, 0, <<CHOOSE r \in PlainResults : TRUE>>)

InitT ==
    /\ inline = FALSE
    /\ environ = EnvRead
    /\ max_workers = 2
    /\ num_threads = 0
    /\ idle_sem = 0
    /\ work_queue = <<>>
    /\ jobs = <<>>
    /\ req = [r \in Requests |-> [pc |-> "start", target |-> None]]
    /\ ctx = [t \in Threads |-> Idle]
    /\ hist = [j \in Requests |-> NoHist]
    /\ tr = NoCall
    /\ files \in {NoFiles, written_files(PriorTranscript)}
    /\ qa = QaIdle
    /\ bc = NoBuild
    /\ rc = NoRetrieve
    /\ gm = NoGen
    /\ ask = NoAsk

InitO ==
    /\ inline = FALSE
    /\ environ = EnvRead
    /\ max_workers = 2
    /\ num_threads = 0
    /\ idle_sem = 0
    /\ work_queue = <<>>
    /\ jobs = <<>>
    /\ req = [r \in Requests |-> [pc |-> "start", target |-> None]]
    /\ ctx = [t \in Threads |-> Idle]
    /\ hist = [j \in Requests |-> NoHist]
    /\ tr = [NoCall EXCEPT !.audio = TimedAudio]
    /\ files = NoFiles
    /\ qa = QaIdle
    /\ bc = NoBuild
    /\ rc = NoRetrieve
    /\ gm = NoGen
    /\ ask = NoAsk

T_Raise(exc) == tr' = [tr EXCEPT !.pc = "raised", !.exc = exc]

\* transcribe_audio(audio_path, session_dir, progress_cb=...)
\* (before records the files the call finds)
T_Call ==
    /\ tr.pc = "none"
    /\ tr' = [tr EXCEPT !.pc = "ensure_wav", !.before = files]
    /\ UNCHANGED <<executor_vars, files, qa, retrieval_vars>>

\* _ensure_wav: a .wav file is used as it is, another one is converted by ffmpeg
T_EnsureWav ==
    /\ tr.pc = "ensure_wav"
    /\ \E is_wav, has_ffmpeg, converts \in BOOLEAN :
          IF is_wav THEN tr' = [tr EXCEPT !.pc = "chunk_wav"]
          ELSE IF ~has_ffmpeg THEN T_Raise(FfmpegMissing)
          ELSE IF ~converts THEN T_Raise(ConversionFailed)
          ELSE tr' = [tr EXCEPT !.pc = "chunk_wav"]
    /\ UNCHANGED <<executor_vars, files, qa, retrieval_vars>>

\* _chunk_wav and: if not chunk_paths: raise TranscriptionError(...)
T_ChunkWav ==
    /\ tr.pc = "chunk_wav"
    /\ \E n \in 0..tr.audio.max_windows :
          IF n = 0 THEN T_Raise(EmptyAudio)
          ELSE tr' = [tr EXCEPT !.pc = "load_model", !.total_chunks = n]
    /\ UNCHANGED <<executor_vars, files, qa, retrieval_vars>>

\* _load_model; segments = []; segment_id = 0
T_LoadModel ==
    /\ tr.pc = "load_model"
    /\ \/ T_Raise(EngineMissing)
       \/ tr' = [tr EXCEPT !.pc = "report", !.chunk_index = 0, !.segments = <<>>,
                           !.segment_id = 0]
    /\ UNCHANGED <<executor_vars, files, qa, retrieval_vars>>

\* top of the loop body: progress_cb(progress, f"Transcribing chunk ...")
T_Report ==
    /\ tr.pc = "report"
    /\ tr' = [tr EXCEPT
                !.pc = "transcribe",
                !.reports = Append(@,
                    [progress |-> window_progress(tr.chunk_index, tr.total_chunks),
                     message |-> ChunkMsg(tr.chunk_index, tr.total_chunks)])]
    /\ UNCHANGED <<executor_vars, files, qa, retrieval_vars>>

\* model.transcribe(chunk_path) and the loop over result_segments
T_Transcribe ==
    /\ tr.pc = "transcribe"
    /\ \/ T_Raise(InferenceError)
       \/ LET room == tr.audio.total_segs - Len(tr.segments)
              most == IF room < tr.audio.window_segs THEN room
                      ELSE tr.audio.window_segs
          IN \E result_segments \in SeqsUpTo(tr.audio.results, most) :
                tr' = [tr EXCEPT
                        !.segments = @ \o window_segments(tr.chunk_index,
                                                          tr.segment_id,
                                                          result_segments),
                        !.segment_id = @ + Len(result_segments),
                        !.chunk_index = @ + 1,
                        !.pc = IF tr.chunk_index + 1 < tr.total_chunks
                               THEN "report" ELSE "open",
                        !.writing = 1]
    /\ UNCHANGED <<executor_vars, files, qa, retrieval_vars>>

\* with path.open("w", encoding="utf-8") as handle: the file is created or
\* truncated (transcript.json, transcript.txt and chunks.json, in this order)
T_OpenFile ==
    /\ tr.pc = "open"
    /\ \/ T_Raise(WriteError) /\ UNCHANGED files
       \/ /\ files' = [files EXCEPT ![FileNames[tr.writing]] = PartFile]
          /\ tr' = [tr EXCEPT !.pc = "dump"]
    /\ UNCHANGED <<executor_vars, qa, retrieval_vars>>

\* json.dump(...) or the handle.write(...) loop, and the close of the file
T_DumpFile ==
    /\ tr.pc = "dump"
    /\ \/ T_Raise(WriteError) /\ UNCHANGED files
       \/ /\ files' = [files EXCEPT ![FileNames[tr.writing]] =
                          FullFile(file_content(FileNames[tr.writing], tr.segments))]
          /\ tr' = [tr EXCEPT !.pc = IF tr.writing < Len(FileNames)
                                     THEN "open" ELSE "complete",
                              !.writing = IF tr.writing < Len(FileNames)
                                          THEN @ + 1 ELSE @]
    /\ UNCHANGED <<executor_vars, qa, retrieval_vars>>

\* progress_cb(100, "Transcription complete."); return str(transcript_path)
T_Complete ==
    /\ tr.pc = "complete"
    /\ tr' = [tr EXCEPT
                !.pc = "returned",
                !.result_path = TranscriptPath,
                !.reports = Append(@, [progress |-> 100,
                                       message |-> Msg("Transcription complete.")])]
    /\ UNCHANGED <<executor_vars, files, qa, retrieval_vars>>

(* ----------------------------- _handle_qa_request: the session's chunks *)
\* transcript = load_transcript(session_dir / "transcript" / "transcript.json")
QA_LoadTranscript ==
    /\ qa.pc = "idle"
    /\ qa' = [qa EXCEPT !.pc = "transcript",
                        !.transcript = load_transcript(files["transcript.json"])]
    /\ UNCHANGED <<executor_vars, tr, files, retrieval_vars>>

\* chunks.json when it exists and parses, build_chunks(transcript) otherwise
load_chunks(file, transcript) ==
    IF file.exists
    THEN IF file.complete THEN file.data
         ELSE build_chunks(transcript, DefaultMaxChars, DefaultOverlap)
    ELSE build_chunks(transcript, DefaultMaxChars, DefaultOverlap)

QA_LoadChunks ==
    /\ qa.pc = "transcript"
    /\ qa' = [qa EXCEPT !.pc = "chunks",
                        !.chunks = load_chunks(files["chunks.json"], qa.transcript)]
    /\ UNCHANGED <<executor_vars, tr, files, retrieval_vars>>

\* the rest of the request: retrieval, the model's answer, the response
QA_Respond ==
    /\ qa.pc = "chunks"
    /\ qa' = QaIdle
    /\ UNCHANGED <<executor_vars, tr, files, retrieval_vars>>

NextT ==
    \/ T_Call
    \/ T_EnsureWav
    \/ T_ChunkWav
    \/ T_LoadModel
    \/ T_Report
    \/ T_Transcribe
    \/ T_OpenFile
    \/ T_DumpFile
    \/ T_Complete
    \/ QA_LoadTranscript
    \/ QA_LoadChunks
    \/ QA_Respond

SpecT == InitT /\ [][NextT]_vars

NextO ==
    \/ T_Call
    \/ T_EnsureWav
    \/ T_ChunkWav
    \/ T_LoadModel
    \/ T_Report
    \/ T_Transcribe

SpecO == InitO /\ [][NextO]_vars

(* ------------------------------------------- build_chunks, step by step *)
\* SpecC follows one call of build_chunks through its loop and its final flush.
other_vars == <<inline, environ, max_workers, num_threads, idle_sem, work_queue,
                jobs, req, ctx, hist, tr, files, qa, gm, ask>>

\* the segments the inputs are made of: 'alpha beta', 'gamma', one text in
\* blanks, an empty text, and a segment without its "end"
SegmentPool ==
    {[text |-> <<"alpha", Space, "beta">>, start |-> 0, end |-> 5],
     [text |-> <<"gamma">>, start |-> 5, end |-> 9],
     [text |-> <<Space, "Gamma", Space>>, start |-> 9, end |-> 12],
     [text |-> <<>>, start |-> 12, end |-> 12],
     [text |-> <<"beta">>, start |-> 12]}

\* the segments numbered in their order, as transcribe_audio numbers them
numbered(pool_segments) ==
    [i \in 1..Len(pool_segments) |-> ("segment_id" :> (i - 1)) @@ pool_segments[i]]

ChunkInputs == {numbered(q) : q \in SeqsUpTo(SegmentPool, MaxChunkSegs)}
MaxCharsValues == {0, 8, 12, DefaultMaxChars}

ValueError == PlainError("ValueError")

InitC ==
    /\ inline = FALSE
    /\ environ = EnvRead
    /\ max_workers = 2
    /\ num_threads = 0
    /\ idle_sem = 0
    /\ work_queue = <<>>
    /\ jobs = <<>>
    /\ req = [r \in Requests |-> [pc |-> "start", target |-> None]]
    /\ ctx = [t \in Threads |-> Idle]
    /\ hist = [j \in Requests |-> NoHist]
    /\ tr = NoCall
    /\ files = NoFiles
    /\ qa = QaIdle
    /\ rc = NoRetrieve
    /\ gm = NoGen
    /\ ask = NoAsk
    /\ \E segments \in ChunkInputs, max_chars \in MaxCharsValues,
          overlap \in 0..MaxOverlap :
          bc = [NoBuild EXCEPT !.pc = "loop", !.segments = segments,
                               !.rest = segments, !.max_chars = max_chars,
                               !.overlap = overlap]

\* one iteration of: for segment in segments
\* (flushed records whether the iteration flushed the buffer)
BC_Segment ==
    /\ bc.pc = "loop"
    /\ bc.rest # <<>>
    /\ IF malformed(Head(bc.rest))
       THEN bc' = [bc EXCEPT !.pc = "raised", !.exc = ValueError]
       ELSE LET st == add_segment(bc.st, Head(bc.rest), bc.max_chars, bc.overlap)
            IN bc' = [bc EXCEPT !.st = st, !.rest = Tail(@),
                                !.flushed = Len(st.chunks) > Len(bc.st.chunks)]
    /\ UNCHANGED <<other_vars, rc>>

\* after the loop: flush(); return chunks
BC_Return ==
    /\ bc.pc = "loop"
    /\ bc.rest = <<>>
    /\ bc' = [bc EXCEPT !.pc = "returned", !.st = final_flush(bc.st, bc.overlap),
                        !.flushed = FALSE]
    /\ UNCHANGED <<other_vars, rc>>

NextC ==
    \/ BC_Segment
    \/ BC_Return

SpecC == InitC /\ [][NextC]_vars

(* ----------------------------------------- retrieve_chunks, step by step *)
\* SpecR follows one call of retrieve_chunks: the query's tokens, the loop over
\* the candidates, the sort and the cut to k.
Queries ==
    {<<>>,
     <<"?">>,
     <<"gamma">>,
     <<"Gamma", "?", Space, "beta">>,
     <<"alpha", Space, "alpha", Space, "gamma">>}

\* the candidates the lists are made of: 'alpha beta', 'alpha beta gamma',
\* 'gamma Gamma?', a text without a token, and a candidate without "text"
CandidatePool ==
    {[text |-> <<"alpha", Space, "beta">>],
     [text |-> <<"alpha", Space, "beta", Space, "gamma">>],
     [text |-> <<"gamma", Space, "Gamma", "?">>],
     [text |-> <<"?">>],
     [kind |-> "attachment"]}

\* the candidates with their position as id, as build_chunks numbers its chunks
with_ids(pool_chunks) ==
    [i \in 1..Len(pool_chunks) |-> ("id" :> (i - 1)) @@ pool_chunks[i]]

CandidateLists == {with_ids(q) : q \in SeqsUpTo(CandidatePool, MaxCandidates)}

InitR ==
    /\ inline = FALSE
    /\ environ = EnvRead
    /\ max_workers = 2
    /\ num_threads = 0
    /\ idle_sem = 0
    /\ work_queue = <<>>
    /\ jobs = <<>>
    /\ req = [r \in Requests |-> [pc |-> "start", target |-> None]]
    /\ ctx = [t \in Threads |-> Idle]
    /\ hist = [j \in Requests |-> NoHist]
    /\ tr = NoCall
    /\ files = NoFiles
    /\ qa = QaIdle
    /\ bc = NoBuild
    /\ gm = NoGen
    /\ ask = NoAsk
    /\ \E query \in Queries, chunks \in CandidateLists, k \in 0..MaxK :
          rc = [NoRetrieve EXCEPT !.pc = "tokenize", !.query = query,
                                  !.chunks = chunks, !.rest = chunks, !.k = k]

\* tokens = _tokenize(query); if not tokens: return []
R_Tokenize ==
    /\ rc.pc = "tokenize"
    /\ LET tokens == tokenize(rc.query)
       IN IF tokens = <<>>
          THEN rc' = [rc EXCEPT !.pc = "returned", !.result = <<>>]
          ELSE rc' = [rc EXCEPT !.pc = "score", !.tokens = tokens]
    /\ UNCHANGED <<other_vars, bc>>

\* one iteration of: for chunk in chunks
R_Score ==
    /\ rc.pc = "score"
    /\ rc.rest # <<>>
    /\ rc' = [rc EXCEPT !.scored = score_chunk(@, rc.tokens, Head(rc.rest)),
                        !.rest = Tail(@)]
    /\ UNCHANGED <<other_vars, bc>>

\* scored.sort(...); return [chunk for _, chunk in scored[:k]]
R_Return ==
    /\ rc.pc = "score"
    /\ rc.rest = <<>>
    /\ rc' = [rc EXCEPT !.pc = "returned",
                        !.result = chunks_of(first_k(sort_by_score(rc.scored), rc.k))]
    /\ UNCHANGED <<other_vars, bc>>

NextR ==
    \/ R_Tokenize
    \/ R_Score
    \/ R_Return

SpecR == InitR /\ [][NextR]_vars

(* ------------------------------------------- answer_question, step by step *)
\* SpecG follows one call of answer_question: _client, the retry loop of
\* _generate_content, _extract_json and the AnswerOutput schema.
RETRYABLE_STATUS == {429, 500, 502, 503, 504}
NoStatus == 0 - 1
DefaultRetries == 3
DefaultBaseDelay == 10
MinBaseDelay == 1

\* the values GEMINI_MAX_RETRIES and GEMINI_RETRY_BASE_SECONDS can hold
RetriesEnvValues ==
    {[set |-> FALSE, valid |-> TRUE, value |-> 0],
     [set |-> TRUE, valid |-> FALSE, value |-> 0]}
    \cup {[set |-> TRUE, valid |-> TRUE, value |-> v] : v \in 0..MaxEnvRetries}
BaseEnvValues ==
    {[set |-> FALSE, valid |-> TRUE, value |-> 0],
     [set |-> TRUE, valid |-> FALSE, value |-> 0]}
    \cup {[set |-> TRUE, valid |-> TRUE, value |-> v] : v \in {0, 2 * DefaultBaseDelay}}

\* int(raw) / float(raw) of an environment value, or the default
env_number(raw, default) ==
    IF ~raw.set \/ ~raw.valid THEN default ELSE raw.value

max(a, b) == IF b > a THEN b ELSE a

\* _retry_settings()[0]: max(1, attempts)
retry_attempts(raw_attempts) == max(1, env_number(raw_attempts, DefaultRetries))

\* _retry_settings()[1]: max(0.1, base_delay)
retry_base_delay(raw_base) == max(MinBaseDelay, env_number(raw_base, DefaultBaseDelay))

\* an attribute value of an exception: an int or a str
IntValue(n) == [int |-> TRUE, digits |-> FALSE, value |-> n]
StrValue(digits, n) == [int |-> FALSE, digits |-> digits, value |-> n]

\* an exception raised by client.models.generate_content: its attributes and
\* str(exc), character by character
ApiError(attrs, message) == [attrs |-> attrs, message |-> message]

\* exceptions the SDK raises: 503 UNAVAILABLE, 429 with a quota message, a status
\* held as the string "500", a 404 whose message names the generate call, 400
\* INVALID_ARGUMENT, and two without any status: a timeout and a quota message
ApiErrors ==
    {ApiError(("code" :> IntValue(503)) @@ ("status" :> StrValue(FALSE, 0)),
              <<"b", "u", "s", "y">>),
     ApiError(("code" :> IntValue(429)), <<"Q", "u", "o", "t", "a">>),
     ApiError(("status" :> StrValue(TRUE, 500)), <<"b", "u", "s", "y">>),
     ApiError(("code" :> IntValue(404)), <<"g", "e", "n", "e", "r", "a", "t", "e">>),
     ApiError(("code" :> IntValue(400)) @@ ("status" :> StrValue(FALSE, 0)),
              <<"i", "n", "v", "a", "l", "i", "d">>),
     ApiError(<<>>, <<"t", "i", "m", "e", "o", "u", "t">>),
     ApiError(<<>>, <<"4", "2", "9", " ", "q", "u", "o", "t", "a">>)}

StatusAttrs == <<"status_code", "code", "status", "http_status">>

RECURSIVE status_from(_, _)
\* the loop of _extract_status over the attribute names
status_from(exc, attrs) ==
    IF attrs = <<>> THEN NoStatus
    ELSE LET attr == Head(attrs)
         IN IF attr \in DOMAIN exc.attrs
               /\ (exc.attrs[attr].int \/ exc.attrs[attr].digits)
            THEN exc.attrs[attr].value
            ELSE status_from(exc, Tail(attrs))

extract_status(exc) == status_from(exc, StatusAttrs)

\* needle in message
contains(needle, message) ==
    \E i \in 1..Len(message) :
        /\ i + Len(needle) - 1 <= Len(message)
        /\ SubSeq(message, i, i + Len(needle) - 1) = needle

is_retryable(exc) ==
    LET message == [i \in 1..Len(exc.message) |-> lower(exc.message[i])]
    IN \/ extract_status(exc) \in RETRYABLE_STATUS
       \/ contains(<<"r", "a", "t", "e">>, message)
       \/ contains(<<"q", "u", "o", "t", "a">>, message)
       \/ contains(<<"4", "2", "9">>, message)

\* a retry whenever the failure is retryable, the last attempt included
may_retry_always(retryable, attempt, max_attempts) == retryable

\* retryable and attempt < max_attempts
may_retry(retryable, attempt, max_attempts) == retryable /\ attempt < max_attempts

RECURSIVE pow2(_)
pow2(n) == IF n = 0 THEN 1 ELSE 2 * pow2(n - 1)

\* base_delay * (2 ** (attempt - 1))
backoff(base_delay, attempt) == base_delay * pow2(attempt - 1)

\* random.uniform(0, base_delay)
Jitters(base_delay) == {0, base_delay \div 2, base_delay}

GeminiRateLimited ==
    TypedError("GeminiError", "AI request was rate-limited. Please retry in a moment.")

\* The model's text is a sequence of pieces: braces, commas, members of a JSON
\* object ("meta:" is a key whose value is the object that follows), a JSON
\* null, a code fence (three backquotes, written ~~~ here), a language tag, words
\* of prose and spaces.
LBrace == "{"
RBrace == "}"
Comma == ","
Fence == "~~~"
Null == "null"
AnswerPair == "answer: A"
MarkdownPair == "answer_markdown: A"
NotePair == "note: 1"
MetaKey == "meta:"
Pairs == {AnswerPair, MarkdownPair, NotePair}

RECURSIVE skip(_, _)
\* the first position from i on that holds no whitespace
skip(t, i) == IF i <= Len(t) /\ t[i] = Space THEN skip(t, i + 1) ELSE i

RECURSIVE object_end(_, _)
RECURSIVE members_end(_, _, _)
RECURSIVE member_end(_, _)
\* the position after the JSON object that starts at t[i]; 0: no object there
object_end(t, i) ==
    IF i > Len(t) \/ t[i] # LBrace THEN 0 ELSE members_end(t, skip(t, i + 1), TRUE)

\* the members of an object, from position i on; empty: "}" may close it here
members_end(t, i, empty) ==
    IF i > Len(t) THEN 0
    ELSE IF t[i] = RBrace THEN (IF empty THEN i + 1 ELSE 0)
    ELSE IF t[i] \in Pairs THEN member_end(t, skip(t, i + 1))
    ELSE IF t[i] = MetaKey
         THEN LET e == object_end(t, skip(t, i + 1))
              IN IF e = 0 THEN 0 ELSE member_end(t, skip(t, e))
    ELSE 0

\* after a member: "," and more members, or "}"
member_end(t, i) ==
    IF i > Len(t) THEN 0
    ELSE IF t[i] = RBrace THEN i + 1
    ELSE IF t[i] = Comma THEN members_end(t, skip(t, i + 1), FALSE)
    ELSE 0

\* json.loads(raw) does not raise json.JSONDecodeError
json_valid(raw) ==
    LET s == skip(raw, 1)
        e == IF s <= Len(raw) /\ raw[s] = Null THEN s + 1 ELSE object_end(raw, s)
    IN e # 0 /\ skip(raw, e) > Len(raw)

\* json.loads(raw): the value, written without its whitespace
json_loads(raw) == SelectSeq(raw, LAMBDA piece : piece # Space)

\* str.find / str.rfind: 0 for not found
find(raw, piece) ==
    IF \E i \in 1..Len(raw) : raw[i] = piece
    THEN CHOOSE i \in 1..Len(raw) : raw[i] = piece /\ \A j \in 1..(i - 1) : raw[j] # piece
    ELSE 0
rfind(raw, piece) ==
    IF \E i \in 1..Len(raw) : raw[i] = piece
    THEN CHOOSE i \in 1..Len(raw) :
             raw[i] = piece /\ \A j \in (i + 1)..Len(raw) : raw[j] # piece
    ELSE 0

\* the text between the first and the last fence, without a leading "json"
unfence(raw) ==
    LET fence_start == find(raw, Fence)
        fence_end == rfind(raw, Fence)
        inner == strip(SubSeq(raw, fence_start + 1, fence_end - 1))
    IN IF fence_start # 0 /\ fence_end > fence_start
       THEN IF inner # <<>> /\ lower(Head(inner)) = "json"
            THEN strip(Tail(inner))
            ELSE inner
       ELSE raw

\* _extract_json(text): ok = FALSE stands for GeminiError
extract_json(text) ==
    LET raw == unfence(strip(text))
        start == find(raw, LBrace)
        end == rfind(raw, RBrace)
        candidate == SubSeq(raw, start, end)
    IN IF json_valid(raw) THEN [ok |-> TRUE, data |-> json_loads(raw)]
       ELSE IF start # 0 /\ end # 0 /\ end > start /\ json_valid(candidate)
            THEN [ok |-> TRUE, data |-> json_loads(candidate)]
       ELSE [ok |-> FALSE, data |-> <<>>]

RECURSIVE top_members(_, _, _)
\* the members of the object data that are not inside a nested object
top_members(data, depth, found) ==
    IF data = <<>> THEN found
    ELSE LET piece == Head(data)
         IN IF piece = LBrace THEN top_members(Tail(data), depth + 1, found)
            ELSE IF piece = RBrace THEN top_members(Tail(data), depth - 1, found)
            ELSE IF depth = 1 /\ piece \in Pairs
                 THEN top_members(Tail(data), depth, found \cup {piece})
            ELSE top_members(Tail(data), depth, found)

\* AnswerOutput(**data) validates: answer and answer_markdown are present
schema_valid(data) == {AnswerPair, MarkdownPair} \subseteq top_members(data, 0, {})

Answer == <<LBrace, AnswerPair, Comma, Space, MarkdownPair, RBrace>>
NestedAnswer ==
    <<LBrace, AnswerPair, Comma, MarkdownPair, Comma, MetaKey, Space, LBrace, NotePair,
      RBrace, RBrace>>
OtherObject == <<LBrace, NotePair, RBrace>>

\* what response.text can be
ResponseTexts ==
    {<<>>,
     <<"Sure">>,
     <<Null>>,
     Answer,
     NestedAnswer,
     OtherObject,
     <<LBrace, AnswerPair, Comma, RBrace>>,
     <<Space>> \o Answer \o <<Space>>,
     <<Fence, "json", Space>> \o Answer \o <<Space, Fence>>,
     <<"Sure", Space, Fence, "JSON", Space>> \o NestedAnswer \o <<Fence, Space, "done">>,
     <<Fence>> \o Answer \o <<Fence>>,
     <<Fence, "json", Space>> \o Answer,
     <<"Sure", Space>> \o Answer \o <<Space, "done">>,
     <<"Sure", Space>> \o NestedAnswer,
     <<"Sure", Space>> \o Answer \o <<Space, "done", Space>> \o OtherObject,
     Answer \o <<Space, RBrace>>,
     <<Fence, "json", Space>> \o Answer \o <<Space, Fence, Space>> \o OtherObject}

gemini_vars == <<executor_vars, tr, files, qa, bc, rc, ask>>

InitG ==
    /\ inline = FALSE
    /\ environ = EnvRead
    /\ max_workers = 0
    /\ num_threads = 0
    /\ idle_sem = 0
    /\ work_queue = <<>>
    /\ jobs = <<>>
    /\ req = [r \in Requests |-> [pc |-> "start", target |-> None]]
    /\ ctx = [t \in Threads |-> Idle]
    /\ hist = [j \in Requests |-> NoHist]
    /\ tr = NoCall
    /\ files = NoFiles
    /\ qa = QaIdle
    /\ bc = NoBuild
    /\ rc = NoRetrieve
    /\ ask = NoAsk
    /\ \E api_key \in BOOLEAN, sdk \in BOOLEAN, retries \in RetriesEnvValues,
          base \in BaseEnvValues :
          gm = [NoGen EXCEPT !.pc = "client", !.api_key = api_key, !.sdk = sdk,
                             !.retries = retries, !.base = base]

G_Raise(exc) == gm' = [gm EXCEPT !.pc = "raised", !.exc = exc]

\* client = _client(); max_attempts, base_delay = _retry_settings()
G_Client ==
    /\ gm.pc = "client"
    /\ IF ~gm.api_key THEN G_Raise(TypedError("GeminiError",
                "GEMINI_API_KEY is not set. Add it to enable AI features."))
       ELSE IF ~gm.sdk THEN G_Raise(TypedError("GeminiError",
                "Gemini SDK is not installed. Install google-genai to enable AI features."))
       ELSE gm' = [gm EXCEPT !.pc = "call", !.attempt = 1,
                             !.max_attempts = retry_attempts(gm.retries),
                             !.base_delay = retry_base_delay(gm.base)]
    /\ UNCHANGED gemini_vars

\* one pass of the loop body: client.models.generate_content(...) returns a
\* response or raises
G_Generate ==
    /\ gm.pc = "call"
    /\ \/ \E text \in ResponseTexts :
              gm' = [gm EXCEPT !.pc = "extract", !.calls = @ + 1, !.text = text,
                               !.error = NoExc]
       \/ \E exc \in ApiErrors :
              IF may_retry(is_retryable(exc), gm.attempt, gm.max_attempts)
              THEN \E jitter \in Jitters(gm.base_delay) :
                       gm' = [gm EXCEPT !.pc = "sleeping", !.calls = @ + 1,
                                        !.error = exc,
                                        !.delay = backoff(gm.base_delay, gm.attempt)
                                                  + jitter]
              ELSE gm' = [gm EXCEPT !.pc = "raised", !.calls = @ + 1, !.error = exc,
                                    !.exc = IF extract_status(exc) = 429
                                            THEN GeminiRateLimited
                                            ELSE GeminiFailed]
    /\ UNCHANGED gemini_vars

\* time.sleep(delay); continue: the next attempt, or the end of the loop
G_Sleep ==
    /\ gm.pc = "sleeping"
    /\ gm' = [gm EXCEPT !.slept = @ + 1, !.attempt = @ + 1,
                        !.pc = IF gm.attempt + 1 <= gm.max_attempts
                               THEN "call" ELSE "raised",
                        !.exc = IF gm.attempt + 1 <= gm.max_attempts
                                THEN NoExc ELSE GeminiFailed]
    /\ UNCHANGED gemini_vars

\* data = _extract_json(...)
G_ExtractJson ==
    /\ gm.pc = "extract"
    /\ LET parsed == extract_json(gm.text)
       IN IF parsed.ok
          THEN gm' = [gm EXCEPT !.pc = "validate", !.data = parsed.data]
          ELSE G_Raise(GeminiInvalidJson)
    /\ UNCHANGED gemini_vars

\* answer = AnswerOutput(**data); answer.sources = sources; return answer
G_Validate ==
    /\ gm.pc = "validate"
    /\ IF gm.data = <<Null>> THEN G_Raise(PlainError("TypeError"))
       ELSE IF schema_valid(gm.data)
            THEN gm' = [gm EXCEPT !.pc = "returned", !.returned = TRUE]
       ELSE G_Raise(TypedError("GeminiError", "AI answer response was invalid."))
    /\ UNCHANGED gemini_vars

NextG ==
    \/ G_Client
    \/ G_Generate
    \/ G_Sleep
    \/ G_ExtractJson
    \/ G_Validate

SpecG == InitG /\ [][NextG]_vars

(* ------------------------------------------------------- Q&A, end to end *)
\* SpecQ follows the requests of POST /api/ai/ask, served by concurrent threads
\* of the server: api_ai_ask, _handle_qa_request up to the source list, the
\* model's answer, and the writes that persist the turn.
TranscriptHits == 6
AttachmentHits == 3

AskThreads == 1..MaxAsks

\* the sessions table: two sessions of module m1, one of module m2
SessionRows ==
    <<[id |-> "s1", module_id |-> "m1", name |-> "Lecture 1", created_at |-> 1],
      [id |-> "s2", module_id |-> "m1", name |-> "Lecture 2", created_at |-> 2],
      [id |-> "s3", module_id |-> "m2", name |-> "Seminar", created_at |-> 3]>>
SessionIds == {SessionRows[i].id : i \in 1..Len(SessionRows)}
NoSession == [id |-> None, module_id |-> None, name |-> None, created_at |-> 0]

\* db.fetch_one("SELECT * FROM sessions WHERE id = ?", ...)
fetch_session(session_id) ==
    IF session_id \in SessionIds
    THEN SessionRows[CHOOSE i \in 1..Len(SessionRows) : SessionRows[i].id = session_id]
    ELSE NoSession

RECURSIVE newest_first(_)
\* ORDER BY created_at DESC
newest_first(rows) ==
    IF rows = {} THEN <<>>
    ELSE LET row == CHOOSE r \in rows : \A o \in rows : o.created_at <= r.created_at
         IN <<row>> \o newest_first(rows \ {row})

\* session_rows: the session, or with scope "module" every session of its module
session_rows(session, scope) ==
    IF scope = "module"
    THEN newest_first({SessionRows[i] : i \in {j \in 1..Len(SessionRows) :
                           SessionRows[j].module_id = session.module_id}})
    ELSE <<session>>

\* chunk["session_id"] = row["id"]; chunk["session_name"] = row["name"]
tagged(item, row) ==
    ("session_id" :> row.id) @@ ("session_name" :> row.name) @@ item
tag_all(items, row) == [i \in 1..Len(items) |-> tagged(items[i], row)]

\* _load_extracted_sources(session_dir)
load_extracted_sources(file) ==
    IF ~file.exists THEN <<>> ELSE IF ~file.complete THEN <<>> ELSE file.data

NoDir == [transcript |-> NoFile, chunks |-> NoFile, extracted_sources |-> NoFile]

RECURSIVE load_rows(_, _, _)
\* the loop over session_rows; session_dir stays bound to the last row's directory
load_rows(rows, dirs, loaded) ==
    IF rows = <<>> THEN loaded
    ELSE LET row == Head(rows)
             transcript == load_transcript(dirs[row.id].transcript)
             chunks == load_chunks(dirs[row.id].chunks, transcript)
             attachment_sources == load_extracted_sources(dirs[row.id].extracted_sources)
         IN load_rows(Tail(rows), dirs,
                [session_dir |-> row.id,
                 all_chunks |-> loaded.all_chunks \o tag_all(chunks, row),
                 all_attachment_sources |->
                     loaded.all_attachment_sources \o tag_all(attachment_sources, row)])

\* sources.append({...}) for the idx-th transcript hit
transcript_source(idx, chunk, session_id) ==
    [id |-> idx,
     source_id |-> "src_" \o ToString(idx),
     kind |-> "transcript",
     excerpt |-> candidate_text(chunk),
     locator |-> [type |-> "transcript",
                  session_id |-> IF "session_id" \in DOMAIN chunk
                                 THEN chunk.session_id ELSE session_id,
                  segment_id |-> chunk.segment_ids[1],
                  t_start |-> chunk.start,
                  t_end |-> chunk.end]]

\* every attachment source numbered 1
source_number_restart(sources) == 1

\* len(sources) + 1
source_number(sources) == Len(sources) + 1

\* sources.append({...}) for an attachment hit
attachment_source(sources, hit, session, session_id) ==
    LET source == hit.source
    IN [id |-> source_number(sources),
        source_id |-> source.source_id,
        kind |-> "attachment",
        excerpt |-> candidate_text(source),
        locator |-> [type |-> "attachment",
                     file_name |-> source.file_name,
                     page |-> source.page,
                     chunk_id |-> source.source_id],
        open_url |-> [module_id |-> session.module_id,
                      session_id |-> IF "session_id" \in DOMAIN source
                                     THEN source.session_id ELSE session_id,
                      filename |-> source.file_name,
                      page |-> source.page]]

RECURSIVE add_attachment_sources(_, _, _, _)
add_attachment_sources(sources, hits, session, session_id) ==
    IF hits = <<>> THEN sources
    ELSE add_attachment_sources(
             Append(sources, attachment_source(sources, Head(hits), session, session_id)),
             Tail(hits), session, session_id)

\* the two retrieval passes and the numbered source list
qa_sources(question, all_chunks, all_attachment_sources, session, session_id) ==
    LET transcript_hits == retrieve_chunks(question, all_chunks, TranscriptHits)
        sources == [i \in 1..Len(transcript_hits) |->
                        transcript_source(i, transcript_hits[i], session_id)]
        attachment_chunks ==
            [i \in 1..Len(all_attachment_sources) |->
                [text |-> candidate_text(all_attachment_sources[i]),
                 source |-> all_attachment_sources[i]]]
        attachment_hits == retrieve_chunks(question, attachment_chunks, AttachmentHits)
    IN add_attachment_sources(sources, attachment_hits, session, session_id)

\* _store_ai_message: INSERT INTO ai_messages; the id is the next rowid
store_ai_message(ai_messages, session_id, role, content) ==
    Append(ai_messages, [id |-> Len(ai_messages) + 1, session_id |-> session_id,
                         role |-> role, content |-> content])

\* _store_ai_sources: one row per source
store_ai_sources(rows, message_id, sources, session_name) ==
    rows \o [i \in 1..Len(sources) |->
                [message_id |-> message_id,
                 source_id |-> sources[i].source_id,
                 kind |-> sources[i].kind,
                 session_name |-> session_name,
                 source_json |-> sources[i]]]

\* _load_ai_messages(session_id): ORDER BY id ASC, each message with its sources
load_ai_messages(ai_messages, ai_message_sources, session_id) ==
    LET messages == SelectSeq(ai_messages, LAMBDA m : m.session_id = session_id)
    IN [i \in 1..Len(messages) |->
           [id |-> messages[i].id, session_id |-> messages[i].session_id,
            role |-> messages[i].role, content |-> messages[i].content,
            sources |-> SelectSeq(ai_message_sources,
                                  LAMBDA s : s.message_id = messages[i].id)]]

\* the chunks of a session's chunks.json; the last one does not match a question
\* about alpha
CachedChunks ==
    [i \in 1..7 |->
        [id |-> i - 1,
         text |-> <<<<"alpha">>, <<"alpha", Space, "alpha">>, <<"alpha", Space, "beta">>,
                    <<"gamma", Space, "alpha">>, <<"Gamma", Space, "alpha", "?">>,
                    <<"beta", Space, "alpha">>, <<"gamma">>>>[i],
         start |-> 10 * (i - 1), end |-> 10 * i, segment_ids |-> <<i - 1>>]]

OneSegment ==
    <<[segment_id |-> 0, start |-> 0, end |-> 5,
       text |-> <<"alpha", Space, "beta", Space, "alpha">>, tags |-> <<>>]>>

\* extracted_sources.json of a session with a two-page PDF
PdfSources(file_name) ==
    [i \in 1..2 |->
        [source_id |-> "att_" \o file_name \o "_p" \o ToString(i), kind |-> "attachment",
         file_name |-> file_name, mime |-> "application/pdf", page |-> i,
         text |-> <<"alpha", Space, <<"beta", "gamma">>[i]>>]]

\* the session directories: s1 has a transcript, a chunks.json that is not valid
\* JSON and a PDF; s2 has its chunks cached and a PDF; s3 is empty
SessionDirs ==
    [s1 |-> [transcript |-> FullFile(OneSegment), chunks |-> PartFile,
             extracted_sources |-> FullFile(PdfSources("a.pdf"))],
     s2 |-> [transcript |-> FullFile(OneSegment), chunks |-> FullFile(CachedChunks),
             extracted_sources |-> FullFile(PdfSources("b.pdf"))],
     s3 |-> NoDir]

\* the JSON payloads of the requests: an unknown session, a blank question, the
\* empty session s3, and questions about alpha in s1 and s2
AskPayloads ==
    {[session_id |-> "s0", question |-> <<"alpha", "?">>, scope |-> "session"],
     [session_id |-> "s1", question |-> <<Space>>, scope |-> "session"],
     [session_id |-> "s3", question |-> <<"alpha", "?">>, scope |-> "session"],
     [session_id |-> "s3", question |-> <<"alpha", "?">>, scope |-> "module"],
     [session_id |-> "s1", question |-> <<"alpha", "?">>, scope |-> "session"],
     [session_id |-> "s2", question |-> <<"alpha", "?">>, scope |-> "session"],
     [session_id |-> "s2", question |-> <<Space, "alpha", "?">>, scope |-> "module"]}

AnswerErrors ==
    {GeminiFailed, GeminiInvalidJson,
     TypedError("GeminiError", "AI answer response was invalid.")}

TheAnswer == [answer |-> "A", answer_markdown |-> "**A**"]

NoRequest == [pc |-> "start", session_id |-> None, question |-> <<>>, scope |-> None,
              session |-> NoSession, session_dir |-> None, sources |-> <<>>,
              answer |-> TheAnswer, model_calls |-> 0, user_message_id |-> 0,
              assistant_message_id |-> 0, status |-> 0, error |-> None]

qa_vars == <<executor_vars, tr, files, qa, bc, rc, gm>>

InitQ ==
    /\ inline = FALSE
    /\ environ = EnvRead
    /\ max_workers = 0
    /\ num_threads = 0
    /\ idle_sem = 0
    /\ work_queue = <<>>
    /\ jobs = <<>>
    /\ req = [r \in Requests |-> [pc |-> "start", target |-> None]]
    /\ ctx = [t \in Threads |-> Idle]
    /\ hist = [j \in Requests |-> NoHist]
    /\ tr = NoCall
    /\ files = NoFiles
    /\ qa = QaIdle
    /\ bc = NoBuild
    /\ rc = NoRetrieve
    /\ gm = NoGen
    /\ ask = [NoAsk EXCEPT !.dirs = SessionDirs,
                            !.reqs = [t \in AskThreads |-> NoRequest],
                            !.last_answer = [s \in SessionIds |-> NoFile]]

\* the request goes on whatever was loaded
content_unchecked(all_chunks, all_attachment_sources) == FALSE

\* if not all_chunks and not all_attachment_sources:
no_content(all_chunks, all_attachment_sources) ==
    all_chunks = <<>> /\ all_attachment_sources = <<>>

\* return {"error": error}, status
respond(r, status, error) == [r EXCEPT !.pc = "done", !.status = status, !.error = error]

\* api_ai_ask and _handle_qa_request up to the prompt: the session, the chunks
\* and sources in scope, the two retrieval passes, the source list
Q_Ask(t) ==
    /\ ask.reqs[t].pc = "start"
    /\ \E payload \in AskPayloads :
          LET question == strip(payload.question)
              session == fetch_session(payload.session_id)
              r == [ask.reqs[t] EXCEPT !.session_id = payload.session_id,
                                       !.question = question,
                                       !.scope = payload.scope,
                                       !.session = session]
              loaded == load_rows(session_rows(session, payload.scope), ask.dirs,
                                  [session_dir |-> None, all_chunks |-> <<>>,
                                   all_attachment_sources |-> <<>>])
          IN ask' = [ask EXCEPT !.reqs[t] =
                 IF question = <<>>
                 THEN respond(r, 400, "Session and question are required.")
                 ELSE IF session = NoSession
                 THEN respond(r, 404, "Session not found.")
                 ELSE IF no_content(loaded.all_chunks, loaded.all_attachment_sources)
                 THEN respond([r EXCEPT !.session_dir = loaded.session_dir], 400,
                              "Upload transcript or attachments to enable Q&A.")
                 ELSE [r EXCEPT !.pc = "model",
                                !.session_dir = loaded.session_dir,
                                !.sources = qa_sources(question, loaded.all_chunks,
                                                loaded.all_attachment_sources,
                                                session, payload.session_id)]]
    /\ UNCHANGED qa_vars

\* a failed model step with the question stored all the same
model_failed_question_kept(a, t, error) ==
    [a EXCEPT !.reqs[t] = respond([@ EXCEPT !.model_calls = @ + 1], 500, error),
              !.ai_messages = store_ai_message(@, a.reqs[t].session_id, "user",
                                               a.reqs[t].question)]

\* except GeminiError as exc: return {"error": exc.user_message}, 500
model_failed(a, t, error) ==
    [a EXCEPT !.reqs[t] = respond([@ EXCEPT !.model_calls = @ + 1], 500, error)]

\* answer = answer_question(prompt, sources): an answer, a GeminiError, or the
\* TypeError of a JSON value that is no object, which the server turns into its
\* own 500 response
Q_Answer(t) ==
    /\ ask.reqs[t].pc = "model"
    /\ \/ ask' = [ask EXCEPT !.reqs[t].pc = "store_user", !.reqs[t].model_calls = @ + 1]
       \/ \E exc \in AnswerErrors : ask' = model_failed(ask, t, exc.user_message.text)
       \/ ask' = model_failed(ask, t, "Internal Server Error")
    /\ UNCHANGED qa_vars

\* user_message_id = _store_ai_message(session_id, "user", question)
Q_StoreUser(t) ==
    /\ ask.reqs[t].pc = "store_user"
    /\ ask' = [ask EXCEPT
                 !.ai_messages = store_ai_message(@, ask.reqs[t].session_id, "user",
                                                  ask.reqs[t].question),
                 !.reqs[t].user_message_id = Len(ask.ai_messages) + 1,
                 !.reqs[t].pc = "store_assistant"]
    /\ UNCHANGED qa_vars

\* assistant_message_id = _store_ai_message(session_id, "assistant", ...)
Q_StoreAssistant(t) ==
    /\ ask.reqs[t].pc = "store_assistant"
    /\ ask' = [ask EXCEPT
                 !.ai_messages = store_ai_message(@, ask.reqs[t].session_id, "assistant",
                                                  ask.reqs[t].answer.answer_markdown),
                 !.reqs[t].assistant_message_id = Len(ask.ai_messages) + 1,
                 !.reqs[t].pc = "store_sources"]
    /\ UNCHANGED qa_vars

\* _store_ai_sources(assistant_message_id, sources, session["name"])
Q_StoreSources(t) ==
    /\ ask.reqs[t].pc = "store_sources"
    /\ ask' = [ask EXCEPT
                 !.ai_message_sources =
                     store_ai_sources(@, ask.reqs[t].assistant_message_id,
                                      ask.reqs[t].sources, ask.reqs[t].session.name),
                 !.reqs[t].pc = "write"]
    /\ UNCHANGED qa_vars

\* (session_dir / "notes" / "last_answer.json").write_text(...); return {...}
Q_WriteLastAnswer(t) ==
    /\ ask.reqs[t].pc = "write"
    /\ ask' = [ask EXCEPT
                 !.last_answer[ask.reqs[t].session_dir] =
                     FullFile([answer |-> ask.reqs[t].answer.answer,
                               answer_markdown |-> ask.reqs[t].answer.answer_markdown,
                               sources |-> ask.reqs[t].sources,
                               context_sources |-> ask.reqs[t].sources,
                               scope |-> ask.reqs[t].scope,
                               question |-> ask.reqs[t].question]),
                 !.reqs[t].pc = "done",
                 !.reqs[t].status = 200]
    /\ UNCHANGED qa_vars

NextQ ==
    \E t \in AskThreads :
        \/ Q_Ask(t)
        \/ Q_Answer(t)
        \/ Q_StoreUser(t)
        \/ Q_StoreAssistant(t)
        \/ Q_StoreSources(t)
        \/ Q_WriteLastAnswer(t)

SpecQ == InitQ /\ [][NextQ]_vars

(* ------------------------------------------------------------ properties *)
TerminalStatus == {"success", "error"}
Terminal(j) == j \in DOMAIN jobs /\ jobs[j].status \in TerminalStatus

\* the threads that are inside _run for job j
Runners(j) == {t \in Threads : ctx[t].job = j}
Busy == {t \in WorkerThreads : ctx[t].pc # "idle"}
Queued == {work_queue[i].job : i \in 1..Len(work_queue)}

\* C1: the status values get_job shows for a job are a prefix of
\* queued -> in_progress -> (success | error): a job is queued at creation, it is
\* never success or error before _run has called its task, and a terminal status
\* never changes again.
C1_StatusStep(j) ==
    \/ jobs'[j].status = jobs[j].status
    \/ jobs[j].status = "queued" /\ jobs'[j].status = "in_progress"
    \/ jobs[j].status = "in_progress" /\ jobs'[j].status \in TerminalStatus

C1_JobLifecycle ==
    /\ [](\A j \in DOMAIN jobs :
            /\ get_job(j).status \in {"queued", "in_progress", "success", "error"}
            /\ hist[j].runs = 0 => get_job(j).status = "queued")
    /\ [][/\ DOMAIN jobs \subseteq DOMAIN jobs'
          /\ \A j \in DOMAIN jobs' \ DOMAIN jobs : jobs'[j].status = "queued"
          /\ \A j \in DOMAIN jobs : C1_StatusStep(j)]_vars

C1_Witness ==
    \E j, k \in DOMAIN jobs :
        /\ jobs[j].status = "success" /\ jobs[k].status = "error"
        /\ hist[j].finished /\ hist[k].finished

\* C2: when the task raises, the job ends in error with the exception's
\* user_message, or "Job failed." when it has none, and enqueue_job returns
\* normally to the submitter in inline and in pooled mode.
C2_ExpectedMessage(exc) ==
    IF exc.has_user_message THEN exc.user_message
    ELSE [text |-> "Job failed.", i |-> 0, n |-> 0]

C2_FailureRecorded ==
    /\ [](/\ \A r \in Requests : req[r].pc # "raised"
          /\ \A j \in DOMAIN jobs :
                hist[j].finished /\ hist[j].outcome = "raised"
                    => get_job(j).status = "error")
    /\ [][\A t \in Threads :
            ctx[t].pc = "raised" /\ ctx'[t].pc # "raised"
                => /\ jobs'[ctx[t].job].status = "error"
                   /\ jobs'[ctx[t].job].message = C2_ExpectedMessage(ctx[t].exc)
                   /\ t \in RequestThreads => req'[t[2]].pc = "returned"]_vars

C2_Witness ==
    \E j, k \in DOMAIN jobs :
        /\ hist[j].finished /\ hist[k].finished
        /\ req[j].pc = "returned" /\ req[k].pc = "returned"
        /\ get_job(j).status = "error" /\ get_job(j).message = Msg("Job failed.")
        /\ get_job(k).status = "error"
        /\ get_job(k).message = Msg("Audio file was empty.")

\* C3: when the task returns normally, the job ends in success with progress 100
\* and result_path equal to the task's return value, and the job status route
\* reports exactly that.
C3_SuccessRecorded ==
    \A j \in DOMAIN jobs :
        hist[j].finished /\ hist[j].outcome = "returned"
            => /\ get_job(j).status = "success"
               /\ get_job(j).progress = 100
               /\ get_job(j).result_path = hist[j].returned
               /\ hist[j].returned = (IF req[j].target = "transcribe_audio"
                                      THEN "transcript/transcript.json"
                                      ELSE "notes/ai_notes.md")
               /\ job_status(j).code = 200
               /\ job_status(j).status = "success"
               /\ job_status(j).progress = 100
               /\ job_status(j).result = hist[j].returned

C3_Witness ==
    \E j \in DOMAIN jobs :
        /\ hist[j].finished /\ hist[j].outcome = "returned"
        /\ req[j].target = "transcribe_audio"
        /\ job_status(j).result = TranscriptPath

\* C4: in inline mode the job is already success or error when enqueue_job
\* returns, so a get_job after the submission never shows queued or in_progress.
C4_InlineTerminal ==
    inline => \A r \in Requests :
                 req[r].pc \in {"returned", "raised"}
                     => get_job(r).status \in TerminalStatus

C4_Witness ==
    /\ inline
    /\ \E r, q \in Requests :
          /\ req[r].pc = "returned" /\ get_job(r).status = "success"
          /\ req[q].pc = "returned" /\ get_job(q).status = "error"

\* C5: in pooled mode at most max_workers jobs (JOBS_MAX_WORKERS, default 2, never
\* less than 1) are being executed; a job submitted while every worker is busy
\* stays queued in the work queue, no submission is rejected or dropped, and the
\* submitter is never blocked.
C5_ExpectedWorkers(raw) ==
    IF ~raw.set \/ ~raw.valid THEN 2
    ELSE IF raw.value >= 1 THEN raw.value ELSE 1

C5_BoundedPool ==
    /\ [](~inline =>
            /\ max_workers # 0 => max_workers >= 1
            /\ num_threads <= max_workers
            /\ Cardinality(Busy) <= max_workers
            /\ \A j \in Queued : get_job(j).status = "queued" /\ hist[j].runs = 0
            /\ \A r \in Requests :
                 /\ req[r].pc = "created" => ENABLED enqueue_job(r)
                 /\ req[r].pc = "returned"
                      => r \in Queued \/ Runners(r) # {} \/ hist[r].finished)
    /\ [][environ' # environ
            => max_workers' = C5_ExpectedWorkers(environ)]_vars

C5_Witness ==
    /\ ~inline
    /\ Cardinality(Busy) = max_workers
    /\ work_queue # <<>>
    /\ \A r \in Requests : req[r].pc = "returned"

\* C6: the task of every submitted job id is executed exactly once and by a
\* single worker: no two threads are in _run for the same job, _run is never
\* called twice for a job, and after creation the job's row is written only by
\* the thread that runs it.
C6_SingleRun ==
    /\ [](\A j \in Requests :
            /\ hist[j].runs <= 1
            /\ Cardinality(Runners(j)) <= 1
            /\ Cardinality({i \in 1..Len(work_queue) : work_queue[i].job = j}) <= 1
            /\ j \in Queued => Runners(j) = {}
            /\ hist[j].finished => hist[j].runs = 1 /\ Runners(j) = {} /\ j \notin Queued)
    /\ [][\A j \in DOMAIN jobs :
            jobs'[j] # jobs[j]
                => \E t \in Runners(j) : ctx'[t] # ctx[t] /\ Runners(j) = {t}]_vars

C6_Witness ==
    /\ ~inline
    /\ \E j, k \in Requests :
          /\ j # k
          /\ hist[j].finished /\ hist[j].runs = 1
          /\ Runners(k) # {} /\ hist[k].runs = 1

\* C7: with the workers scheduled fairly and every task terminating, every job
\* submitted with enqueue_job eventually reaches success or error: again and
\* again every job submitted so far is success or error (a submission is never
\* undone, so each submitted job is in that state at some later moment).
C7_EventuallyTerminal ==
    []<>(\A j \in Requests : hist[j].enqueued => Terminal(j))

C7_Witness ==
    /\ ~inline
    /\ \A j \in Requests : hist[j].enqueued /\ Terminal(j)

\* C8: for transcribe_audio and the notes task the job's progress stays within
\* 0..100, never decreases while the status is in_progress, the row always holds
\* the update the task issued last, and a successful run ends at exactly 100.
C8_ProgressMonotone ==
    /\ [](/\ \A j \in DOMAIN jobs :
                /\ get_job(j).progress \in 0..100
                /\ get_job(j).status = "success" => get_job(j).progress = 100
          /\ \A t \in Threads :
                ctx[t].job # 0 /\ ctx[t].reported # NoReport
                    => /\ get_job(ctx[t].job).progress = ctx[t].reported.progress
                       /\ get_job(ctx[t].job).message = ctx[t].reported.message)
    /\ [][\A j \in DOMAIN jobs :
            jobs[j].status = "in_progress" => jobs'[j].progress >= jobs[j].progress]_vars

C8_Witness ==
    \E t \in Threads :
        /\ ctx[t].target = "transcribe_audio"
        /\ ctx[t].chunk_index >= 1
        /\ get_job(ctx[t].job).status = "in_progress"
        /\ get_job(ctx[t].job).progress > 0
        /\ get_job(ctx[t].job).progress < 100

\* C9 as stated: after window i completes the pipeline reports (i / N) x 100
\* together with a "window i/N" message, and 100 on completion.
C9_Original ==
    \A t \in Threads :
        /\ ctx[t].pc = "transcribe" /\ ctx[t].chunk_index >= 1
              => ctx[t].reported =
                    [progress |-> (ctx[t].chunk_index * 100) \div ctx[t].total_chunks,
                     message |-> [text |-> "Transcribing chunk", i |-> ctx[t].chunk_index,
                                  n |-> ctx[t].total_chunks]]
        /\ ctx[t].pc \in {"write", "complete"}
              => ctx[t].reported.progress = 100

\* C9 (amended): before window i of N is transcribed (i = 1..N) the pipeline
\* reports the integer part of ((i - 1) / N) x 100 together with the message
\* "Transcribing chunk i/N"; it reports 100 with "Transcription complete." on
\* completion, after the output files are written.
C9_ReportsBeforeWindow ==
    \A t \in Threads :
        /\ ctx[t].pc = "transcribe"
              => ctx[t].reported =
                    [progress |-> (ctx[t].chunk_index * 100) \div ctx[t].total_chunks,
                     message |-> [text |-> "Transcribing chunk",
                                  i |-> ctx[t].chunk_index + 1,
                                  n |-> ctx[t].total_chunks]]
        /\ ctx[t].pc \in {"write", "complete"}
              => /\ ctx[t].reported.progress =
                       ((ctx[t].total_chunks - 1) * 100) \div ctx[t].total_chunks
                 /\ ctx[t].reported.message.i = ctx[t].total_chunks
        /\ ctx[t].pc = "returned" /\ ctx[t].target = "transcribe_audio"
              => ctx[t].reported =
                    [progress |-> 100,
                     message |-> [text |-> "Transcription complete.", i |-> 0, n |-> 0]]

C9_Witness ==
    \E t \in Threads :
        /\ ctx[t].pc = "transcribe"
        /\ ctx[t].total_chunks = 2 /\ ctx[t].chunk_index = 1
        /\ ctx[t].reported.progress = 50

\* C10: the segment_id values of every transcript transcribe_audio produces are
\* 0, 1, ..., n-1 in output order: sequential across all windows, never reset at a
\* window boundary, without gaps or duplicates, also when a window yields no
\* segment.
C10_Sequential(segs) == \A i \in 1..Len(segs) : segs[i].segment_id = i - 1

C10_SequentialIds ==
    /\ C10_Sequential(tr.segments)
    /\ C10_Sequential(load_transcript(files["transcript.json"]))
    /\ tr.pc \in {"complete", "returned"}
          => load_transcript(files["transcript.json"]) = tr.segments

C10_Witness ==
    LET transcript == load_transcript(files["transcript.json"])
    IN /\ tr.pc = "returned"
       /\ Len(transcript) >= 3
       /\ \E w \in 0..(tr.total_chunks - 1) :
             \A i \in 1..Len(transcript) : transcript[i].window # w
       /\ \E i \in 1..(Len(transcript) - 1) :
             transcript[i].window # transcript[i + 1].window

\* C11: transcribe_audio takes the windows in increasing index order, and the
\* start and end of every segment it emits are the recogniser's times for the
\* segment plus window index x chunk_seconds. So when the recogniser's times lie
\* in [0, chunk_seconds], with end >= start, and do not go back inside a window,
\* the start times never decrease over the whole transcript and every segment
\* has end >= start.
C11_ModelTimesOrdered(segs) ==
    /\ \A i \in 1..Len(segs) :
          /\ 0 <= segs[i].seg.start /\ segs[i].seg.start <= segs[i].seg.end
          /\ segs[i].seg.end <= chunk_seconds
    /\ \A i \in 1..(Len(segs) - 1) :
          segs[i].window = segs[i + 1].window
              => segs[i].seg.start <= segs[i + 1].seg.start

C11_GlobalTimeline ==
    /\ \A i \in 1..Len(tr.segments) :
          /\ tr.segments[i].window < tr.chunk_index
          /\ tr.segments[i].start
                = tr.segments[i].seg.start + tr.segments[i].window * chunk_seconds
          /\ tr.segments[i].end
                = tr.segments[i].seg.end + tr.segments[i].window * chunk_seconds
    /\ \A i \in 1..(Len(tr.segments) - 1) :
          tr.segments[i].window <= tr.segments[i + 1].window
    /\ C11_ModelTimesOrdered(tr.segments)
          => /\ \A i \in 1..(Len(tr.segments) - 1) :
                   tr.segments[i].start <= tr.segments[i + 1].start
             /\ \A i \in 1..Len(tr.segments) :
                   tr.segments[i].end >= tr.segments[i].start

C11_Witness ==
    /\ tr.pc = "open"
    /\ C11_ModelTimesOrdered(tr.segments)
    /\ \E i \in 1..(Len(tr.segments) - 2) :
          /\ tr.segments[i].window = 0
          /\ tr.segments[i + 1].window = 1 /\ tr.segments[i + 2].window = 1
          /\ tr.segments[i].start = chunk_seconds
          /\ tr.segments[i + 1].start = chunk_seconds
          /\ tr.segments[i + 2].end = 2 * chunk_seconds

\* C12: a run of transcribe_audio that fails at any step, the writing of the
\* output files included, leaves transcript.json, transcript.txt and chunks.json
\* as they were before the run, and at no moment do the files hold anything but
\* the state before the run or the complete output of the run.
C12_AllOrNothing ==
    tr.pc # "none"
        => /\ tr.pc = "raised" => files = tr.before
           /\ files \in {tr.before, written_files(tr.segments)}

\* C13: the chunks _handle_qa_request uses for the session are build_chunks of
\* the session's transcript as transcript.json holds it when the chunks are
\* loaded, also while a run of transcribe_audio writes its output and after a
\* run that failed.
C13_ChunksOfCurrentTranscript ==
    [][qa.pc = "transcript" /\ qa'.pc = "chunks"
          => qa'.chunks = build_chunks(load_transcript(files["transcript.json"]),
                                       DefaultMaxChars, DefaultOverlap)]_vars

\* C14: transcribe_audio never retries: a window is transcribed once, the first
\* failure of the conversion, the empty-audio check, the engine or the
\* recogniser ends the run, the failure is a TranscriptionError carrying a
\* user-facing message, and the job ends in error with that message.
C14_TypedFailure ==
    [][\A t \in Threads :
          ctx[t].target = "transcribe_audio" =>
            /\ ctx[t].pc = "transcribe" /\ ctx'[t].pc # "transcribe"
                  => \/ ctx'[t].pc = "raised"
                     \/ ctx'[t].chunk_index = ctx[t].chunk_index + 1
            /\ ctx[t].pc = "raised" /\ ctx'[t].pc # "raised" /\ ctx[t].exc # WriteError
                  => /\ ctx[t].exc.cls = "TranscriptionError"
                     /\ ctx[t].exc.has_user_message
                     /\ jobs'[ctx[t].job].status = "error"
                     /\ jobs'[ctx[t].job].message = ctx[t].exc.user_message]_vars

segment_ids_of(buffer) == [i \in 1..Len(buffer) |-> buffer[i].segment_id]

RECURSIVE all_segment_ids(_)
\* the segment_ids of the chunks, one chunk after the other
all_segment_ids(chunks) ==
    IF chunks = <<>> THEN <<>>
    ELSE Head(chunks).segment_ids \o all_segment_ids(Tail(chunks))

RECURSIVE first_occurrences(_, _)
\* ids without the ones that were met before
first_occurrences(ids, seen) ==
    IF ids = <<>> THEN <<>>
    ELSE IF Head(ids) \in seen THEN first_occurrences(Tail(ids), seen)
    ELSE <<Head(ids)>> \o first_occurrences(Tail(ids), seen \cup {Head(ids)})

LastIds(ids, n) ==
    IF n >= Len(ids) THEN ids ELSE SubSeq(ids, Len(ids) - n + 1, Len(ids))

\* C15: for every sequence of well-formed segments, every max_chars and every
\* overlap >= 0, the segment_ids of the chunks build_chunks returns, read chunk
\* after chunk and without the repetitions the overlap brings, are the ids of the
\* input segments, each once and in the input's order; every chunk holds
\* consecutive segments.
C15_CoversEverySegment ==
    bc.pc = "returned"
        => /\ first_occurrences(all_segment_ids(bc.st.chunks), {})
                = segment_ids_of(bc.segments)
           /\ \A c \in 1..Len(bc.st.chunks) :
                 LET ids == bc.st.chunks[c].segment_ids
                 IN /\ ids # <<>>
                    /\ \A i \in 1..(Len(ids) - 1) : ids[i + 1] = ids[i] + 1

C15_Witness ==
    /\ bc.pc = "returned"
    /\ Len(bc.segments) = 3
    /\ bc.overlap = 1
    /\ Len(bc.st.chunks) >= 2
    /\ bc.st.chunks[1].segment_ids = <<0, 1>>
    /\ bc.st.chunks[2].segment_ids = <<1, 2>>

\* C16: build_chunks on the segments {0, 0.0-5.0, 'alpha beta'} and
\* {1, 5.0-9.0, 'gamma'} with max_chars = 8 and overlap = 1 returns two chunks
\* and no other: {'alpha beta', 0.0, 5.0, [0]} and
\* {'alpha beta gamma', 0.0, 9.0, [0, 1]}.
C16_Segments ==
    <<[segment_id |-> 0, start |-> 0, end |-> 5, text |-> <<"alpha", Space, "beta">>],
      [segment_id |-> 1, start |-> 5, end |-> 9, text |-> <<"gamma">>]>>

C16_Chunks ==
    <<[id |-> 0, text |-> <<"alpha", Space, "beta">>, start |-> 0, end |-> 5,
       segment_ids |-> <<0>>],
      [id |-> 1, text |-> <<"alpha", Space, "beta", Space, "gamma">>, start |-> 0,
       end |-> 9, segment_ids |-> <<0, 1>>]>>

C16_ScenarioTwoChunks ==
    /\ bc.pc = "returned"
    /\ bc.segments = C16_Segments /\ bc.max_chars = 8 /\ bc.overlap = 1
    => bc.st.chunks = C16_Chunks

\* C17, as the spec states it: whatever the overlap, the raw text lengths of the
\* segments of a chunk add up to less than max_chars plus the length of the
\* chunk's last segment.
C17_ChunkChars(chunk) ==
    buffer_len([i \in 1..Len(chunk.segment_ids) |->
                    bc.segments[chunk.segment_ids[i] + 1]])

C17_LastChars(chunk) ==
    len(text_of(bc.segments[chunk.segment_ids[Len(chunk.segment_ids)] + 1]))

C17_Original ==
    bc.max_chars > 0 =>
        \A c \in 1..Len(bc.st.chunks) :
            C17_ChunkChars(bc.st.chunks[c])
                < bc.max_chars + C17_LastChars(bc.st.chunks[c])

\* the segments of chunk c that no earlier chunk holds
C17_NewSegments(c) ==
    LET ids == bc.st.chunks[c].segment_ids
        before == IF c = 1 THEN {}
                  ELSE {bc.st.chunks[c - 1].segment_ids[i] :
                            i \in 1..Len(bc.st.chunks[c - 1].segment_ids)}
    IN {i \in 1..Len(ids) : ids[i] \notin before}

\* C17: the segments kept for the overlap count for the threshold. A chunk's raw
\* text lengths add up to less than max_chars plus the length of its last
\* segment unless the chunk is made of the segments kept from the chunk before
\* it and at most one new segment; with overlap = 0 and max_chars > 0 the bound
\* holds for every chunk.
C17_OverByOneSegmentOrOverlap ==
    /\ \A c \in 1..Len(bc.st.chunks) :
          \/ C17_ChunkChars(bc.st.chunks[c])
                 < bc.max_chars + C17_LastChars(bc.st.chunks[c])
          \/ Cardinality(C17_NewSegments(c)) <= 1
    /\ bc.overlap = 0 => C17_Original

C17_Witness ==
    /\ bc.pc = "returned"
    /\ bc.max_chars = 8 /\ bc.overlap = 1
    /\ Len(bc.st.chunks) >= 2
    /\ Cardinality(C17_NewSegments(1)) = 2
    /\ C17_ChunkChars(bc.st.chunks[1]) = 15
    /\ Cardinality(C17_NewSegments(2)) = 1
    /\ C17_ChunkChars(bc.st.chunks[2]) >= 8 + C17_LastChars(bc.st.chunks[2])

\* C18: after a flush that the threshold set off, the buffer holds the last
\* min(overlap, length) segments of the chunk just flushed, in their order, and
\* the next chunk begins with them; with overlap = 0 the buffer is empty after
\* the flush and no segment is in two chunks.
C18_OverlapKept ==
    /\ bc.st.buffer_chars = buffer_len(bc.st.buffer)
    /\ bc.flushed =>
          segment_ids_of(bc.st.buffer)
              = LastIds(bc.st.chunks[Len(bc.st.chunks)].segment_ids, bc.overlap)
    /\ \A c \in 1..(Len(bc.st.chunks) - 1) :
          LET kept == LastIds(bc.st.chunks[c].segment_ids, bc.overlap)
          IN SubSeq(bc.st.chunks[c + 1].segment_ids, 1, Len(kept)) = kept
    /\ bc.overlap = 0 =>
          /\ bc.flushed => bc.st.buffer = <<>>
          /\ \A c, d \in 1..Len(bc.st.chunks) :
                c # d => \A i \in 1..Len(bc.st.chunks[c].segment_ids) :
                            \A j \in 1..Len(bc.st.chunks[d].segment_ids) :
                               bc.st.chunks[c].segment_ids[i]
                                   # bc.st.chunks[d].segment_ids[j]

C18_Witness ==
    /\ bc.flushed
    /\ bc.overlap = 2
    /\ bc.st.chunks[Len(bc.st.chunks)].segment_ids = <<0, 1, 2>>
    /\ segment_ids_of(bc.st.buffer) = <<1, 2>>

\* the spec's score of a candidate text for a query: the sum over the distinct
\* tokens t of the query of tf(t, candidate) x tf(t, query)
TermFrequency(t, tokens) == Cardinality({i \in 1..Len(tokens) : tokens[i] = t})

RECURSIVE SumOfProducts(_, _, _)
SumOfProducts(distinct, query_tokens, text_tokens) ==
    IF distinct = {} THEN 0
    ELSE LET t == CHOOSE x \in distinct : TRUE
         IN TermFrequency(t, text_tokens) * TermFrequency(t, query_tokens)
                + SumOfProducts(distinct \ {t}, query_tokens, text_tokens)

Score(query, chunk) ==
    LET query_tokens == tokenize(query)
    IN SumOfProducts({query_tokens[i] : i \in 1..Len(query_tokens)}, query_tokens,
                     tokenize(candidate_text(chunk)))

\* C19: for every query, every candidate list and every k >= 0, retrieve_chunks
\* returns at most k items, none of them a candidate whose score is zero; a query
\* without a token (empty, punctuation only) gives the empty result, and the
\* call never raises.
C19_AtMostKPositive ==
    /\ rc.pc # "raised" /\ rc.exc = NoExc
    /\ rc.pc = "returned"
          => /\ Len(rc.result) <= rc.k
             /\ \A i \in 1..Len(rc.result) : Score(rc.query, rc.result[i]) > 0
             /\ tokenize(rc.query) = <<>> => rc.result = <<>>

C19_Witness ==
    /\ rc.pc = "returned"
    /\ rc.k = 1
    /\ Len(rc.chunks) = 3
    /\ Score(rc.query, rc.chunks[1]) = 0
    /\ Score(rc.query, rc.chunks[2]) > 0
    /\ Score(rc.query, rc.chunks[3]) > 0
    /\ Len(rc.result) = 1

\* C20: retrieve_chunks scores a candidate with the sum over the distinct query
\* tokens t of tf(t, candidate text) x tf(t, query), on lower-cased alphanumeric
\* tokens, and returns the candidates with a score > 0, sorted by score
\* descending and cut to k: no item twice, every returned item scores at least
\* as high as the items after it and as every positive candidate left out. The
\* query 'gamma' over 'alpha beta' and 'alpha beta gamma' with k = 1 returns the
\* second chunk alone.
C20_Positive == {i \in 1..Len(rc.chunks) : Score(rc.query, rc.chunks[i]) > 0}

C20_ScenarioChunks ==
    <<[id |-> 0, text |-> <<"alpha", Space, "beta">>],
      [id |-> 1, text |-> <<"alpha", Space, "beta", Space, "gamma">>]>>

C20_RankedByScore ==
    rc.pc = "returned"
        => /\ \A i \in 1..Len(rc.result) :
                 \E p \in C20_Positive : rc.result[i] = rc.chunks[p]
           /\ \A i, j \in 1..Len(rc.result) :
                 /\ i # j => rc.result[i] # rc.result[j]
                 /\ i < j => Score(rc.query, rc.result[i])
                                >= Score(rc.query, rc.result[j])
           /\ Len(rc.result) = IF rc.k < Cardinality(C20_Positive) THEN rc.k
                               ELSE Cardinality(C20_Positive)
           /\ \A i \in 1..Len(rc.result) :
                 \A p \in C20_Positive :
                     (\A j \in 1..Len(rc.result) : rc.result[j] # rc.chunks[p])
                         => Score(rc.query, rc.result[i])
                               >= Score(rc.query, rc.chunks[p])
           /\ rc.query = <<"gamma">> /\ rc.chunks = C20_ScenarioChunks /\ rc.k = 1
                 => rc.result = <<C20_ScenarioChunks[2]>>

C20_Witness ==
    /\ rc.pc = "returned"
    /\ rc.k = 2
    /\ Len(rc.chunks) = 3
    /\ Cardinality(C20_Positive) = 3
    /\ Score(rc.query, rc.chunks[1]) < Score(rc.query, rc.chunks[3])
    /\ Score(rc.query, rc.chunks[2]) = Score(rc.query, rc.chunks[1])
    /\ rc.result = <<rc.chunks[3], rc.chunks[1]>>


\* C21: _generate_content sleeps and retries only after a failure whose status is
\* 429, 500, 502, 503 or 504; a failure of any other class is surfaced after
\* that call, with no backoff sleep.
C21_RetryOnlyRetryableStatus ==
    gm.pc = "sleeping" => extract_status(gm.error) \in RETRYABLE_STATUS

C22_ExpectedAttempts(raw) ==
    IF raw.set /\ raw.valid /\ raw.value >= 1 THEN raw.value
    ELSE IF raw.set /\ raw.valid THEN 1
    ELSE 3

C22_InLoop == gm.pc \in {"call", "sleeping"}
C22_Left == gm.pc \in {"extract", "validate", "returned", "raised"} /\ gm.calls > 0

\* C22: _generate_content makes at most max_attempts model calls, where
\* max_attempts is GEMINI_MAX_RETRIES (default 3, at least 1): the first
\* successful response is returned with no further call, otherwise GeminiError
\* is raised after the last attempt; it sleeps only between two attempts, and
\* the delay is base * 2^(attempt-1) plus a jitter between 0 and base.
C22_BoundedRetries ==
    /\ gm.calls > 0 \/ C22_InLoop =>
           /\ gm.max_attempts = C22_ExpectedAttempts(gm.retries)
           /\ gm.max_attempts >= 1
           /\ gm.calls <= gm.max_attempts
    /\ gm.pc = "call" => gm.slept = gm.calls /\ gm.attempt = gm.calls + 1
    /\ gm.pc = "sleeping" =>
           /\ gm.attempt < gm.max_attempts
           /\ gm.calls = gm.attempt
           /\ gm.slept = gm.attempt - 1
           /\ gm.delay >= gm.base_delay * (2 ^ (gm.attempt - 1))
           /\ gm.delay <= gm.base_delay * (2 ^ (gm.attempt - 1)) + gm.base_delay
    /\ C22_Left => gm.slept = gm.calls - 1 /\ gm.calls = gm.attempt
    /\ gm.pc = "raised" /\ gm.error # NoExc => gm.exc.cls = "GeminiError"

\* three calls, two sleeps, the second of 2 * 1.0 + 0.5 seconds, then the error
C22_Witness ==
    /\ gm.pc = "raised"
    /\ gm.retries.set = FALSE
    /\ gm.base.set = FALSE
    /\ gm.calls = 3
    /\ gm.slept = 2
    /\ gm.delay = 25
    /\ gm.exc = GeminiRateLimited

RECURSIVE balanced_end(_, _, _)
\* the position of the "}" that closes the "{" at the start of the scan
balanced_end(text, i, depth) ==
    IF i > Len(text) THEN 0
    ELSE IF text[i] = LBrace THEN balanced_end(text, i + 1, depth + 1)
    ELSE IF text[i] = RBrace
         THEN IF depth = 1 THEN i ELSE balanced_end(text, i + 1, depth - 1)
    ELSE balanced_end(text, i + 1, depth)

\* the first balanced {...} of the text; <<>> if there is none
FirstBalanced(text) ==
    LET start == find(text, LBrace)
        end == IF start = 0 THEN 0 ELSE balanced_end(text, start, 0)
    IN IF end = 0 THEN <<>> ELSE SubSeq(text, start, end)

\* C27: whenever the model's text contains a JSON object, in a fenced block or
\* inside prose, _extract_json returns the first balanced {...} of the text,
\* also when more braces or another object follow it.
C27_FirstBalancedObject ==
    /\ gm.pc \in {"validate", "returned", "raised"}
    /\ gm.calls > 0
    /\ gm.error = NoExc
    /\ FirstBalanced(gm.text) # <<>>
    /\ json_valid(FirstBalanced(gm.text))
    => gm.data = json_loads(FirstBalanced(gm.text))


Tables == <<ask.ai_messages, ask.ai_message_sources, ask.last_answer>>

\* the sessions in scope of a request, and whether any of them has content
InScope(r) ==
    IF r.scope = "module"
    THEN {s \in SessionIds : fetch_session(s).module_id = r.session.module_id}
    ELSE {r.session_id}
HasContent(s) ==
    \/ load_chunks(ask.dirs[s].chunks, load_transcript(ask.dirs[s].transcript)) # <<>>
    \/ load_extracted_sources(ask.dirs[s].extracted_sources) # <<>>

C23_Answered(t) ==
    LET r == ask'.reqs[t]
        untouched == r.pc = "done" /\ r.model_calls = 0 /\ UNCHANGED Tables
    IN /\ r.session_id \notin SessionIds =>
              untouched /\ r.status = 404 /\ r.error = "Session not found."
       /\ r.session_id \in SessionIds /\ (\A s \in InScope(r) : ~HasContent(s)) =>
              /\ untouched
              /\ r.status = 400
              /\ r.error = "Upload transcript or attachments to enable Q&A."

\* C23: a question in a scope where no session has a chunk or an attachment
\* source is answered with 400 before the model is called: no model call, no
\* message, source or last_answer.json written; an unknown session is answered
\* with 404.
C23_ClientErrorBeforeModel ==
    [][\A t \in AskThreads :
          ask.reqs[t].pc = "start" /\ ask'.reqs[t].pc # "start"
              /\ ask'.reqs[t].question # <<>>
          => C23_Answered(t)]_vars

\* a module-wide question in the empty module answered 400, an unknown session 404
C23_Witness ==
    \E t \in AskThreads, u \in AskThreads :
        /\ ask.reqs[t].pc = "done"
        /\ ask.reqs[t].session_id = "s3"
        /\ ask.reqs[t].scope = "module"
        /\ ask.reqs[t].status = 400
        /\ ask.reqs[t].model_calls = 0
        /\ ask.reqs[u].pc = "done"
        /\ ask.reqs[u].status = 404

\* C24: when the model step of a question fails, the request is answered with
\* 500 and has persisted nothing: neither the step that prepares the question
\* nor the failed model step changes ai_messages, ai_message_sources or any
\* last_answer.json.
C24_NothingPersistedOnFailure ==
    [][\A t \in AskThreads :
          /\ ask.reqs[t].pc = "start" /\ ask'.reqs[t].pc = "model" => UNCHANGED Tables
          /\ ask.reqs[t].pc = "model" /\ ask'.reqs[t].pc = "done" =>
                 /\ ask'.reqs[t].status = 500
                 /\ ask'.reqs[t].model_calls = 1
                 /\ UNCHANGED Tables]_vars

\* a question of s1 failed on invalid JSON after another question of s1 was
\* stored: the conversation holds the two messages of the other question only
C24_Witness ==
    \E t \in AskThreads :
        /\ ask.reqs[t].pc = "done"
        /\ ask.reqs[t].status = 500
        /\ ask.reqs[t].error = "AI response was invalid."
        /\ ask.reqs[t].session_id = "s1"
        /\ Len(load_ai_messages(ask.ai_messages, ask.ai_message_sources, "s1")) = 2

C25_Storing(s) ==
    \E t \in AskThreads :
        /\ ask.reqs[t].session_id = s
        /\ ask.reqs[t].pc \in {"store_user", "store_assistant", "store_sources", "write"}

C25_Asks(s) ==
    Cardinality({t \in AskThreads : ask.reqs[t].session_id = s /\ ask.reqs[t].status = 200})

\* C25: after n successful asks, a session's conversation as _load_ai_messages
\* returns it holds 2n messages, alternating user (the question) and assistant
\* (the answer), and only the assistant messages carry sources.
C25_AlternatingConversation ==
    \A s \in SessionIds :
        ~C25_Storing(s) =>
            LET messages == load_ai_messages(ask.ai_messages, ask.ai_message_sources, s)
            IN /\ Len(messages) = 2 * C25_Asks(s)
               /\ \A i \in 1..Len(messages) :
                      /\ messages[i].role = IF i % 2 = 1 THEN "user" ELSE "assistant"
                      /\ messages[i].role = "user" => messages[i].sources = <<>>

C26_Kind(sources, kind) == {i \in 1..Len(sources) : sources[i].kind = kind}

\* the candidates of a pool that match the question
C26_Matching(question, pool) ==
    Cardinality({i \in 1..Len(pool) : Score(question, pool[i]) > 0})

C26_Min(a, b) == IF a < b THEN a ELSE b

C26_Sources(r) ==
    LET sources == r.sources
        pool == load_rows(session_rows(r.session, r.scope), ask.dirs,
                          [session_dir |-> None, all_chunks |-> <<>>,
                           all_attachment_sources |-> <<>>])
        transcript == C26_Kind(sources, "transcript")
        attachment == C26_Kind(sources, "attachment")
    IN /\ Len(sources) <= 9
       /\ Cardinality(transcript) = C26_Min(6, C26_Matching(r.question, pool.all_chunks))
       /\ Cardinality(attachment) =
              C26_Min(3, C26_Matching(r.question, pool.all_attachment_sources))
       /\ \A i \in transcript, j \in attachment : i < j
       /\ \A i \in 1..Len(sources) : sources[i].id = i
       /\ \A i \in 1..(Len(sources) - 1) :
              sources[i].kind = sources[i + 1].kind =>
                  Score(r.question, [text |-> sources[i].excerpt])
                      >= Score(r.question, [text |-> sources[i + 1].excerpt])

\* C26: the source list of a question holds the best 6 transcript chunks and the
\* best 3 attachment sources that match it, each pool ranked on its own: at most
\* 9 entries, the transcript sources before the attachment sources, numbered
\* 1..n without a gap or a duplicate.
C26_TwoPassesThenMerged ==
    \A t \in AskThreads :
        ask.reqs[t].pc = "model" \/ (ask.reqs[t].pc = "done" /\ ask.reqs[t].status = 200)
        => C26_Sources(ask.reqs[t])

\* a module-wide question with 7 matching chunks and 4 matching attachment
\* sources in scope: 6 + 3 sources
C26_Witness ==
    \E t \in AskThreads :
        /\ ask.reqs[t].pc = "done"
        /\ ask.reqs[t].status = 200
        /\ ask.reqs[t].scope = "module"
        /\ Len(ask.reqs[t].sources) = 9
        /\ ask.reqs[t].sources[6].kind = "transcript"
        /\ ask.reqs[t].sources[7].kind = "attachment"
        /\ ask.reqs[t].sources[9].id = 9

\* the session a persisted source was loaded from
C28_Origin(row) ==
    IF row.kind = "transcript" THEN row.source_json.locator.session_id
    ELSE row.source_json.open_url.session_id

\* C28: every citation persisted for an answer carries the id and the name of
\* the session its chunk or attachment source was loaded from, also when that
\* is not the session the question was asked in.
C28_CitationsNameTheirSession ==
    \A i \in 1..Len(ask.ai_message_sources) :
        ask.ai_message_sources[i].session_name
            = fetch_session(C28_Origin(ask.ai_message_sources[i])).name

\* C29: the write of notes/last_answer.json at the end of a successful ask
\* writes the file of the session the question was asked in and of no other
\* session, whatever the scope.
C29_LastAnswerInAskingSession ==
    [][\A t \in AskThreads :
          ask.reqs[t].pc = "write" /\ ask'.reqs[t].pc = "done" =>
              /\ ask'.last_answer[ask.reqs[t].session_id].exists
              /\ \A s \in SessionIds \ {ask.reqs[t].session_id} :
                     ask'.last_answer[s] = ask.last_answer[s]]_vars

C30_Ids(c) ==
    {bc.st.chunks[c].segment_ids[i] : i \in 1..Len(bc.st.chunks[c].segment_ids)}

\* C30: every chunk build_chunks returns holds at least one segment that no
\* earlier chunk holds, for every overlap: the final flush never emits a chunk
\* made only of the overlap segments of the chunk before it.
C30_EveryChunkHasNewSegment ==
    bc.pc = "returned" =>
        \A c \in 1..Len(bc.st.chunks) :
            \E id \in C30_Ids(c) : \A e \in 1..(c - 1) : id \notin C30_Ids(e)

====
